---- MODULE Spec2Model ----
(***************************************************************************)
(* A model of the ska_ser_scpi protocol stack: the attribute <-> SCPI      *)
(* field engine (AttributeClient, ScpiServer), the SCPI text codec         *)
(* (ScpiClient, ScpiBytesServer), the simulator (ScpiSimulator) and the    *)
(* client's retry loop.                                                    *)
(*                                                                         *)
(* Representation of Python values:                                        *)
(*   text      a sequence of one-character strings                         *)
(*   str       [str   |-> text]                                            *)
(*   bytes     [bytes |-> text]                                            *)
(*   bool      [bool  |-> TRUE]                                            *)
(*   int       [int   |-> 130]                                             *)
(*   float     [float |-> 987]   tenths: 98.7 (one fractional digit)       *)
(*   None      [none  |-> TRUE]                                            *)
(* An insertion-ordered dict is a sequence of [k |-> key, v |-> value].    *)
(* A call that can raise returns [ok |-> TRUE, val |-> v] or               *)
(* [ok |-> FALSE, err |-> "ExceptionName", message |-> what it names].     *)
(***************************************************************************)
EXTENDS Integers, Sequences, FiniteSets, TLC

VARIABLES
    attribute_map,      \* the attribute definitions the stack was built with
    chain,              \* ScpiClient._chain
    return_response,    \* ScpiClient._return_response
    timeout_retries,    \* ScpiClient._timeout_retries
    attribute_request,  \* the AttributeRequest given to send_receive
    scpi_request,       \* AttributeClient._marshall_request's result
    setops,             \* send_receive: marshalled setop units
    queries,            \* send_receive: marshalled query units
    sent,               \* how many units of the current loop are finished
    connection_attempt, \* send_receive: the retry loop's counter
    responses,          \* send_receive: reply bytes collected so far
    calls,              \* every invocation of the bytes client, in order
    scpi_response,      \* ScpiClient._unmarshall_response's result
    attribute_response, \* AttributeClient._unmarshall_response's result
    raised,             \* the exception that reached the caller, or NoException
    attribute_values,   \* ScpiSimulator._attribute_values
    pc,                 \* where the call is
    payload,            \* unmarshall: the bytes accumulated so far
    chunks,             \* the chunks unmarshall has taken from the iterator
    len_head,           \* unmarshall: length of the block header
    len_data,           \* unmarshall: payload length the block header states
    unit,               \* what unmarshall returned, or None
    other,              \* the AttributeRequest a request is compared with
    comparison          \* the results of the comparison operators

\* the variables of the byte framer
framer_vars == <<payload, chunks, len_head, len_data, unit>>

\* the variables of a comparison of two requests
compare_vars == <<other, comparison>>

\* the variables of a send_receive / receive_send call
call_vars == <<attribute_map, chain, return_response, timeout_retries,
               attribute_request, scpi_request, setops, queries, sent,
               connection_attempt, responses, calls, scpi_response,
               attribute_response, raised, attribute_values, pc>>

vars == <<call_vars, framer_vars, compare_vars>>

----------------------------------------------------------------------------
(* Bounds of the model. *)

\* longest setop list of a generated AttributeRequest
MaxSetops == 3
\* longest query list of a generated AttributeRequest
MaxQueries == 2
\* largest timeout_retries a generated ScpiClient is configured with
MaxRetries == 2
\* longest query list that send_receive is given with chaining disabled
MaxUnchained == 2
\* longest generated reply of the bytes client
MaxReplyLen == 3
\* longest field list given to ScpiClient._unmarshall_response
MaxFields == 3
\* longest list of attributes queried in any order through the full stack
MaxE2EQueries == 2
\* largest timeout_retries of the client in front of the simulator
MaxE2ERetries == 1
\* longest first chunk the byte framer is given
MaxFirstChunk == 4
\* longest later chunk the byte framer is given
MaxChunk == 2
\* most bytes the byte framer accumulates
MaxBufferLen == 6

\* commands in one generated request to the server
MaxCommands == 2

\* add_setop calls on one ScpiRequest
MaxAddSetops == 3

\* longest value of the field read and written through different bindings
MaxLevelLen == 3

\* setops, and queries, in one request sent over the wire
MaxWireCommands == 2

\* setops and queries in one compared request
MaxCompareSetops == 2

MaxCompareQueries == 2

\* bytes in one value of an arbitrary_block field
MaxBlockLen == 5

----------------------------------------------------------------------------
(* Python builtins. *)

SeqsUpTo(S, n) == UNION {[1..k -> S] : k \in 0..n}

Range(s) == {s[i] : i \in DOMAIN s}

Ok(v) == [ok |-> TRUE, val |-> v]

\* raise e(message): message lists what the text of the exception names
RaiseWith(e, message) == [ok |-> FALSE, err |-> e, message |-> message]

Raise(e) == RaiseWith(e, <<>>)

NoException == [err |-> "None", message |-> <<>>]

Exception(result) == [err |-> result.err, message |-> result.message]

None == [none |-> TRUE]

PyStr(t) == [str |-> t]

PyBytes(t) == [bytes |-> t]

PyBool(b) == [bool |-> b]

PyInt(n) == [int |-> n]

PyFloat(tenths) == [float |-> tenths]

IsA(v, type) == DOMAIN v = {type}

\* bool(v): Python truthiness
Truthy(v) ==
    CASE IsA(v, "bool") -> v.bool
      [] IsA(v, "int") -> v.int # 0
      [] IsA(v, "float") -> v.float # 0
      [] IsA(v, "str") -> v.str # <<>>
      [] IsA(v, "bytes") -> v.bytes # <<>>
      [] OTHER -> FALSE

Digits == <<"0", "1", "2", "3", "4", "5", "6", "7", "8", "9">>

IsDigit(c) == c \in Range(Digits)

DigitVal(c) == (CHOOSE d \in 1..10 : Digits[d] = c) - 1

RECURSIVE IntToStr(_)
\* str(n) for an int n >= 0
IntToStr(n) ==
    IF n < 10 THEN <<Digits[n + 1]>>
    ELSE IntToStr(n \div 10) \o <<Digits[(n % 10) + 1]>>

RECURSIVE DigitsToInt(_)
DigitsToInt(t) ==
    IF t = <<>> THEN 0
    ELSE 10 * DigitsToInt(SubSeq(t, 1, Len(t) - 1)) + DigitVal(t[Len(t)])

AllDigits(t) == t # <<>> /\ \A i \in DOMAIN t : IsDigit(t[i])

Whitespace == {" ", "\t", "\r", "\n"}

RECURSIVE LStrip(_)
LStrip(t) ==
    IF t # <<>> /\ t[1] \in Whitespace THEN LStrip(Tail(t)) ELSE t

RECURSIVE RStrip(_)
RStrip(t) ==
    IF t # <<>> /\ t[Len(t)] \in Whitespace
    THEN RStrip(SubSeq(t, 1, Len(t) - 1))
    ELSE t

\* str.strip()
Strip(t) == RStrip(LStrip(t))

\* int(x) for x a str: surrounding whitespace is ignored, then decimal digits
StrToInt(x) ==
    IF AllDigits(Strip(x)) THEN Ok(DigitsToInt(Strip(x)))
    ELSE Raise("ValueError")

\* float(x) for x a str, in tenths: digits, optionally "." and one digit
StrToFloat(x) ==
    LET t == Strip(x)
        dot == IF \E i \in DOMAIN t : t[i] = "."
               THEN CHOOSE i \in DOMAIN t : t[i] = "." /\ \A j \in 1..(i - 1) : t[j] # "."
               ELSE 0
    IN IF dot = 0
       THEN (IF AllDigits(t) THEN Ok(10 * DigitsToInt(t)) ELSE Raise("ValueError"))
       ELSE IF /\ AllDigits(SubSeq(t, 1, dot - 1))
               /\ Len(t) = dot + 1
               /\ IsDigit(t[dot + 1])
            THEN Ok(10 * DigitsToInt(SubSeq(t, 1, dot - 1)) + DigitVal(t[dot + 1]))
            ELSE Raise("ValueError")

\* str(v) for the supported attribute types
ToStr(v) ==
    CASE IsA(v, "bool") -> IF v.bool THEN <<"T", "r", "u", "e">>
                           ELSE <<"F", "a", "l", "s", "e">>
      [] IsA(v, "int") -> IntToStr(v.int)
      [] IsA(v, "float") ->
            IntToStr(v.float \div 10) \o <<".">> \o IntToStr(v.float % 10)
      [] IsA(v, "str") -> v.str

RECURSIVE Pow2(_)
\* 1 << bit
Pow2(bit) == IF bit = 0 THEN 1 ELSE 2 * Pow2(bit - 1)

\* bool(value & (1 << bit))
BitIsSet(value, bit) == (value \div Pow2(bit)) % 2 = 1

\* mask | value, for mask = 1 << bit
BitOr(value, bit) == IF BitIsSet(value, bit) THEN value ELSE value + Pow2(bit)

\* ~mask & value, for mask = 1 << bit and value >= 0
BitAndNot(value, bit) == IF BitIsSet(value, bit) THEN value - Pow2(bit) ELSE value

RECURSIVE Join(_, _)
\* sep.join(parts)
Join(parts, sep) ==
    IF parts = <<>> THEN <<>>
    ELSE IF Len(parts) = 1 THEN parts[1]
    ELSE parts[1] \o sep \o Join(Tail(parts), sep)

(* Insertion-ordered dicts. *)

Has(d, key) == \E i \in DOMAIN d : d[i].k = key

Get(d, key) == d[CHOOSE i \in DOMAIN d : d[i].k = key].v

\* d[key] = value: an existing key keeps its position
Put(d, key, value) ==
    IF Has(d, key)
    THEN [i \in DOMAIN d |-> IF d[i].k = key THEN [k |-> key, v |-> value] ELSE d[i]]
    ELSE Append(d, [k |-> key, v |-> value])

Keys(d) == [i \in DOMAIN d |-> d[i].k]

Values(d) == [i \in DOMAIN d |-> d[i].v]

----------------------------------------------------------------------------
(* scpi_payload.py and attribute_payload.py: the payload data model. *)

\* ScpiRequest(): _queries is a dict used as an ordered set, _setops a list
ScpiRequest == [queries |-> <<>>, setops |-> <<>>]

\* a variant of add_query that keeps a list instead of an ordered set
ScpiRequest_add_query_appending(request, field) ==
    [request EXCEPT !.queries = Append(@, field)]

\* ScpiRequest.add_query
ScpiRequest_add_query(request, field) ==
    [request EXCEPT !.queries =
        IF field \in Range(@) THEN @ ELSE Append(@, field)]

\* a variant of replace=True that drops the first setop of the field and
\* appends the new one
ScpiRequest_replace_setop_moved(request, field, args) ==
    IF \E i \in DOMAIN request.setops : request.setops[i].field = field
    THEN LET i == CHOOSE i \in DOMAIN request.setops :
                    /\ request.setops[i].field = field
                    /\ \A j \in 1..(i - 1) : request.setops[j].field # field
         IN [request EXCEPT !.setops =
                Append(SubSeq(@, 1, i - 1) \o SubSeq(@, i + 1, Len(@)),
                       [field |-> field, args |-> args])]
    ELSE [request EXCEPT !.setops = Append(@, [field |-> field, args |-> args])]

\* ScpiRequest.add_setop, replace=True: overwrite the first setop of the field
\* in place, or append when there is none
ScpiRequest_replace_setop(request, field, args) ==
    IF \E i \in DOMAIN request.setops : request.setops[i].field = field
    THEN LET i == CHOOSE i \in DOMAIN request.setops :
                    /\ request.setops[i].field = field
                    /\ \A j \in 1..(i - 1) : request.setops[j].field # field
         IN [request EXCEPT !.setops[i] = [field |-> field, args |-> args]]
    ELSE [request EXCEPT !.setops = Append(@, [field |-> field, args |-> args])]

\* ScpiRequest.add_setop(field, *args, replace=False)
ScpiRequest_add_setop(request, field, args, replace) ==
    IF replace
    THEN ScpiRequest_replace_setop(request, field, args)
    ELSE [request EXCEPT !.setops = Append(@, [field |-> field, args |-> args])]

\* ScpiResponse(): _responses is a dict field -> value
ScpiResponse == <<>>

\* ScpiResponse.add_query_response
ScpiResponse_add_query_response(response, field, value) ==
    Put(response, field, value)

\* AttributeRequest()
AttributeRequest == [queries |-> <<>>, setops |-> <<>>]

RECURSIVE Dedup(_)
\* the keys of a dict filled from a list, in insertion order
Dedup(s) ==
    IF s = <<>> THEN <<>>
    ELSE LET init == Dedup(SubSeq(s, 1, Len(s) - 1))
         IN IF s[Len(s)] \in Range(init) THEN init ELSE Append(init, s[Len(s)])

\* AttributeRequest.set_queries(*attributes)
AttributeRequest_set_queries(request, attributes) ==
    [request EXCEPT !.queries = Dedup(attributes)]

\* AttributeRequest.add_setop(attribute, *args)
AttributeRequest_add_setop(request, attribute, args) ==
    [request EXCEPT !.setops = Append(@, [attribute |-> attribute, args |-> args])]

\* AttributeResponse(): _responses is a dict attribute -> value
AttributeResponse == <<>>

\* AttributeResponse.add_query_response
AttributeResponse_add_query_response(response, attribute, value) ==
    Put(response, attribute, value)

----------------------------------------------------------------------------
(* The interface definition of the client-stack test.  A binding without    *)
(* "bit" or "packet_item" key carries index |-> -1.                         *)

NAME == <<"N", "A", "M", "E">>

JUIC == <<"J", "U", "I", "C">>

PEEL == <<"P", "E", "E", "L">>

FLAGS == <<"F", "L", "A", "G", "S">>

Binding(method, field, field_type, index) ==
    [method |-> method, field |-> field, field_type |-> field_type, index |-> index]

\* a read binding and a write binding with the same content
ReadWrite(field, field_type, index) ==
    <<Binding("read", field, field_type, index), Binding("write", field, field_type, index)>>

\* the attribute definitions of the client-stack test, in the form in which
\* AttributeClient and ScpiServer read them: per attribute, a dict from the
\* methods "read" and "write" to a binding
FruitAttributes ==
    << [k |-> "name", v |-> <<Binding("read", NAME, "str", -1)>>],
       [k |-> "juiciness", v |-> ReadWrite(JUIC, "float", -1)],
       [k |-> "peeled", v |-> ReadWrite(PEEL, "bool", -1)],
       [k |-> "overripe", v |-> ReadWrite(FLAGS, "bit", 0)],
       [k |-> "under-ripe", v |-> ReadWrite(FLAGS, "bit", 1)],
       [k |-> "chilled", v |-> ReadWrite(FLAGS, "bit", 7)] >>

\* definition[method] of an attribute: the binding of that name
HasMethod(definition, method) == \E i \in DOMAIN definition : definition[i].method = method

MethodOf(definition, method) ==
    definition[CHOOSE i \in DOMAIN definition : definition[i].method = method]

----------------------------------------------------------------------------
(* attribute_client.py: AttributeClient. *)

FieldInfo(field_type, attribute, attributes) ==
    [field_type |-> field_type, attribute |-> attribute, attributes |-> attributes]

\* AttributeClient.__init__: one (attribute, method) step of the loop that
\* builds _field_map, a dict field -> dict method -> field info
AttributeClient_field_map_step(field_map, attribute, binding) ==
    LET field == binding.field
        method == binding.method
        fm == IF Has(field_map, field) THEN field_map ELSE Put(field_map, field, <<>>)
        methods == Get(fm, field)
    IN IF binding.field_type # "None"
       THEN IF binding.field_type \in {"bit", "packet_item"}
            THEN LET old == IF Has(methods, method) THEN Get(methods, method)
                            ELSE FieldInfo(binding.field_type, "", <<>>)
                     new == [old EXCEPT !.attributes = Put(@, binding.index, attribute)]
                 IN Put(fm, field, Put(methods, method, new))
            ELSE Put(fm, field,
                     Put(methods, method, FieldInfo(binding.field_type, attribute, <<>>)))
       ELSE Put(fm, field, << [k |-> method, v |-> FieldInfo("None", attribute, <<>>)] >>)

RECURSIVE AttributeClient_field_map_methods(_, _, _)
AttributeClient_field_map_methods(field_map, attribute, bindings) ==
    IF bindings = <<>> THEN field_map
    ELSE AttributeClient_field_map_methods(
            AttributeClient_field_map_step(field_map, attribute, bindings[1]),
            attribute, Tail(bindings))

RECURSIVE AttributeClient_field_map_from(_, _)
AttributeClient_field_map_from(field_map, definitions) ==
    IF definitions = <<>> THEN field_map
    ELSE AttributeClient_field_map_from(
            AttributeClient_field_map_methods(field_map, definitions[1].k, definitions[1].v),
            Tail(definitions))

\* AttributeClient.__init__: self._field_map
AttributeClient_field_map(definitions) ==
    AttributeClient_field_map_from(<<>>, definitions)

RECURSIVE AttributeClient_marshall_queries(_, _, _)
\* _marshall_request, first loop: each queried attribute adds its read field
AttributeClient_marshall_queries(definitions, request, attributes) ==
    IF attributes = <<>> THEN Ok(request)
    ELSE IF ~Has(definitions, attributes[1]) THEN Raise("KeyError")
    ELSE IF ~HasMethod(Get(definitions, attributes[1]), "read") THEN Raise("KeyError")
    ELSE AttributeClient_marshall_queries(
            definitions,
            ScpiRequest_add_query(
                request, MethodOf(Get(definitions, attributes[1]), "read").field),
            Tail(attributes))

\* _marshall_request, bit branch: the flag value already queued for the field
\* (the first setop of that field), or zero
AttributeClient_current_flag(request, field) ==
    IF \E i \in DOMAIN request.setops : request.setops[i].field = field
    THEN LET i == CHOOSE i \in DOMAIN request.setops :
                    /\ request.setops[i].field = field
                    /\ \A j \in 1..(i - 1) : request.setops[j].field # field
         IN IF request.setops[i].args = <<>> THEN Raise("IndexError")
            ELSE StrToInt(request.setops[i].args[1])
    ELSE Ok(0)

\* a variant of the truthy branch that leaves out replace=True
AttributeClient_set_bit_appending(request, field, bit, current_flag) ==
    ScpiRequest_add_setop(request, field, <<IntToStr(BitOr(current_flag, bit))>>, FALSE)

\* _marshall_request, bit branch: the setop emitted for a truthy argument
AttributeClient_set_bit(request, field, bit, current_flag) ==
    ScpiRequest_add_setop(request, field, <<IntToStr(BitOr(current_flag, bit))>>, TRUE)

\* _marshall_request, bit branch: the setop emitted for a falsy argument
AttributeClient_clear_bit(request, field, bit, current_flag) ==
    ScpiRequest_add_setop(request, field, <<IntToStr(BitAndNot(current_flag, bit))>>, FALSE)

\* _marshall_request, last branch: the string form of the arguments
AttributeClient_str_args(field_type, args) ==
    IF field_type = "bool"
    THEN [i \in DOMAIN args |-> IF Truthy(args[i]) THEN <<"1">> ELSE <<"0">>]
    ELSE [i \in DOMAIN args |-> ToStr(args[i])]

\* _marshall_request, second loop: one setop
AttributeClient_marshall_setop(definitions, request, setop) ==
    IF ~Has(definitions, setop.attribute) THEN Raise("KeyError")
    ELSE IF ~HasMethod(Get(definitions, setop.attribute), "write") THEN Raise("KeyError")
    ELSE LET write == MethodOf(Get(definitions, setop.attribute), "write")
             field == write.field
         IN IF write.field_type = "None"
            THEN Ok(ScpiRequest_add_setop(request, field, <<>>, FALSE))
            ELSE IF write.field_type = "bit"
            THEN LET current_flag == AttributeClient_current_flag(request, field)
                 IN IF ~current_flag.ok THEN current_flag
                    ELSE IF setop.args = <<>> THEN Raise("IndexError")
                    ELSE IF Truthy(setop.args[1])
                    THEN Ok(AttributeClient_set_bit(request, field, write.index, current_flag.val))
                    ELSE Ok(AttributeClient_clear_bit(request, field, write.index, current_flag.val))
            ELSE Ok(ScpiRequest_add_setop(
                        request, field,
                        AttributeClient_str_args(write.field_type, setop.args), FALSE))

RECURSIVE AttributeClient_marshall_setops(_, _, _)
AttributeClient_marshall_setops(definitions, request, attribute_setops) ==
    IF attribute_setops = <<>> THEN Ok(request)
    ELSE LET step == AttributeClient_marshall_setop(definitions, request, attribute_setops[1])
         IN IF ~step.ok THEN step
            ELSE AttributeClient_marshall_setops(definitions, step.val, Tail(attribute_setops))

\* AttributeClient._marshall_request
AttributeClient_marshall_request(definitions, request) ==
    LET queried == AttributeClient_marshall_queries(definitions, ScpiRequest, request.queries)
    IN IF ~queried.ok THEN queried
       ELSE AttributeClient_marshall_setops(definitions, queried.val, request.setops)

----------------------------------------------------------------------------
(* scpi_client.py: ScpiClient. *)

\* ScpiClient.__init__: argument_separator = " "
argument_separator == <<" ">>

\* setop_str = self._argument_separator.join([setop, *args]), encoded
ScpiClient_setop_bytes(setop, separator) ==
    PyBytes(Join(<<setop.field>> \o setop.args, separator))

\* query_str = f"{query}?", encoded
ScpiClient_query_bytes(query) == PyBytes(query \o <<"?">>)

\* b";".join(units)
JoinBytes(units) == PyBytes(Join([i \in DOMAIN units |-> units[i].bytes], <<";">>))

\* a variant of the chaining that also chains an empty list of units
ScpiClient_chained_empty(units, chained) ==
    IF chained THEN <<JoinBytes(units)>> ELSE units

\* if self._chain: units = [b";".join(units)]
ScpiClient_chained(units, chained) ==
    IF units # <<>> /\ chained THEN <<JoinBytes(units)>> ELSE units

\* ScpiClient._marshall_request: (setops, queries), two lists of bytes
ScpiClient_marshall_request(request, chained, separator) ==
    [setops |-> ScpiClient_chained(
                   [i \in DOMAIN request.setops |->
                       ScpiClient_setop_bytes(request.setops[i], separator)],
                   chained),
     queries |-> ScpiClient_chained(
                   [i \in DOMAIN request.queries |->
                       ScpiClient_query_bytes(request.queries[i])],
                   chained)]

RECURSIVE RegexMatchEnd_unquoted(_, _)
\* a variant of the pattern without the quoted alternative: [^;"]+
RegexMatchEnd_unquoted(t, i) ==
    IF i > Len(t) THEN i
    ELSE IF t[i] \notin {";", "\""} THEN RegexMatchEnd_unquoted(t, i + 1)
    ELSE i

RECURSIVE RegexMatchEnd(_, _)
\* self._response_regex = (?:[^;"]|"[^"]+?")+ matched at position i: the
\* position after the match, or i when it does not match there.  Each round
\* takes one character other than ; and ", or a quoted run of one or more
\* characters other than "
RegexMatchEnd(t, i) ==
    IF i > Len(t) THEN i
    ELSE IF t[i] \notin {";", "\""} THEN RegexMatchEnd(t, i + 1)
    ELSE IF t[i] = "\"" /\ \E j \in (i + 1)..Len(t) : t[j] = "\""
    THEN LET close == CHOOSE j \in (i + 1)..Len(t) :
                         /\ t[j] = "\""
                         /\ \A k \in (i + 1)..(j - 1) : t[k] # "\""
         IN IF close >= i + 2 THEN RegexMatchEnd(t, close + 1) ELSE i
    ELSE i

RECURSIVE RegexFindAll(_, _)
\* self._response_regex.findall(t), scanning from position i
RegexFindAll(t, i) ==
    IF i > Len(t) THEN <<>>
    ELSE LET end == RegexMatchEnd(t, i)
         IN IF end = i THEN RegexFindAll(t, i + 1)
            ELSE <<SubSeq(t, i, end - 1)>> \o RegexFindAll(t, end)

\* response_bytes.decode(self._encoding).strip(), then findall unless empty
ScpiClient_response_values(response_bytes) ==
    LET response_str == Strip(response_bytes.bytes)
    IN IF response_str # <<>> THEN RegexFindAll(response_str, 1) ELSE <<>>

RECURSIVE ScpiClient_values(_)
\* _unmarshall_response: the values of all received units, in order
ScpiClient_values(received) ==
    IF received = <<>> THEN <<>>
    ELSE ScpiClient_response_values(received[1]) \o ScpiClient_values(Tail(received))

\* a variant of the length check that only rejects surplus values
ScpiClient_mismatch_surplus(values, fields) == Len(values) > Len(fields)

\* _unmarshall_response: if len(values) != len(fields)
ScpiClient_mismatch(values, fields) == Len(values) # Len(fields)

RECURSIVE ScpiClient_zip(_, _, _)
\* for field, value in zip(fields, values): add_query_response(field, value)
ScpiClient_zip(response, fields, values) ==
    IF fields = <<>> \/ values = <<>> THEN response
    ELSE ScpiClient_zip(
            ScpiResponse_add_query_response(response, fields[1], PyStr(values[1])),
            Tail(fields), Tail(values))

\* ScpiClient._unmarshall_response(responses, fields)
ScpiClient_unmarshall_response(received, fields) ==
    LET values == ScpiClient_values(received)
    IN IF ScpiClient_mismatch(values, fields)
       THEN RaiseWith("ValueError", <<Len(values), values, Len(fields), fields>>)
       ELSE Ok(ScpiClient_zip(ScpiResponse, fields, values))

\* a variant of the re-raise test that is off by one
ScpiClient_reraise_early(attempt, retries) == attempt >= retries

\* send_receive: if connection_attempt > self._timeout_retries: raise
ScpiClient_reraise(attempt, retries) == attempt > retries

\* send_receive: for connection_attempt in range(1, self._timeout_retries + 2)
ScpiClient_attempts(retries) == 1..(retries + 1)

----------------------------------------------------------------------------
(* attribute_client.py: AttributeClient._unmarshall_response. *)

\* the text of a str or bytes value
TextOf(v) == IF IsA(v, "str") THEN v.str ELSE v.bytes

\* int(field_value): accepts str and bytes
IntOf(v) == StrToInt(TextOf(v))

\* float(field_value): accepts str and bytes
FloatOf(v) == StrToFloat(TextOf(v))

\* field_value.decode("utf-8"): only bytes has the method
Decode(v) ==
    IF IsA(v, "bytes") THEN Ok(PyStr(v.bytes)) ELSE Raise("AttributeError")

\* field_value == b"1": a str never equals a bytes
EqualsBytes(v, b) == v = PyBytes(b)

RECURSIVE SplitOn(_, _)
\* re.split(" ", text)
SplitOn(t, sep) ==
    IF \E i \in DOMAIN t : t[i] = sep
    THEN LET i == CHOOSE i \in DOMAIN t : t[i] = sep /\ \A j \in 1..(i - 1) : t[j] # sep
         IN <<SubSeq(t, 1, i - 1)>> \o SplitOn(SubSeq(t, i + 1, Len(t)), sep)
    ELSE <<t>>

\* a variant of the bit branch that adds the response after the loop instead
\* of inside it: only the last registered bit is reported
AttributeClient_unmarshall_last_bit(response, registered, field_value) ==
    IF registered = <<>> THEN Ok(response)
    ELSE LET number == IntOf(field_value)
         IN IF ~number.ok THEN number
            ELSE Ok(AttributeResponse_add_query_response(
                        response, registered[Len(registered)].v,
                        PyBool(BitIsSet(number.val, registered[Len(registered)].k))))

RECURSIVE AttributeClient_unmarshall_bits(_, _, _)
\* bit branch: one boolean response per registered bit of the field
AttributeClient_unmarshall_bits(response, registered, field_value) ==
    IF registered = <<>> THEN Ok(response)
    ELSE LET number == IntOf(field_value)
         IN IF ~number.ok THEN number
            ELSE AttributeClient_unmarshall_bits(
                    AttributeResponse_add_query_response(
                        response, registered[1].v,
                        PyBool(BitIsSet(number.val, registered[1].k))),
                    Tail(registered), field_value)

RECURSIVE AttributeClient_unmarshall_packet(_, _, _)
\* packet_item branch: one float response per registered position
AttributeClient_unmarshall_packet(response, registered, packet) ==
    IF registered = <<>> THEN Ok(response)
    ELSE IF registered[1].k + 1 > Len(packet) THEN Raise("IndexError")
    ELSE LET number == StrToFloat(packet[registered[1].k + 1])
         IN IF ~number.ok THEN number
            ELSE AttributeClient_unmarshall_packet(
                    AttributeResponse_add_query_response(
                        response, registered[1].v, PyFloat(number.val)),
                    Tail(registered), packet)

\* arbitrary_block branch: the header is # d and d length digits; the payload
\* must have the declared length.  The decoded value lists the payload bytes
AttributeClient_unmarshall_block(field, field_value) ==
    IF IsA(field_value, "str") THEN Raise("TypeError")
    ELSE LET t == field_value.bytes
         IN IF t = <<>> \/ t[1] # "#" THEN RaiseWith("ValueError", <<field>>)
            ELSE IF Len(t) < 2 \/ ~IsDigit(t[2]) THEN Raise("ValueError")
            ELSE LET block_len_head == 2 + DigitVal(t[2])
                     block_len_data ==
                         StrToInt(SubSeq(t, 3, IF block_len_head < Len(t) THEN block_len_head
                                               ELSE Len(t)))
                     data_bytes == SubSeq(t, block_len_head + 1, Len(t))
                 IN IF ~block_len_data.ok THEN Raise("ValueError")
                    ELSE IF Len(data_bytes) # block_len_data.val
                    THEN RaiseWith("ValueError",
                                   <<Len(data_bytes), block_len_data.val, field>>)
                    ELSE Ok([list |-> data_bytes])

\* the branches for a field bound to a single attribute
AttributeClient_unmarshall_value(field, field_type, field_value) ==
    CASE field_type = "bool" -> Ok(PyBool(EqualsBytes(field_value, <<"1">>)))
      [] field_type = "float" ->
            (LET number == FloatOf(field_value)
             IN IF number.ok THEN Ok(PyFloat(number.val)) ELSE number)
      [] field_type = "int" ->
            (LET number == IntOf(field_value)
             IN IF number.ok THEN Ok(PyInt(number.val)) ELSE number)
      [] field_type = "packet_index" -> Ok(field_value)
      [] field_type = "arbitrary_block" -> AttributeClient_unmarshall_block(field, field_value)
      [] OTHER -> Decode(field_value)

\* definition = list(self._field_map[field].values())[0]
AttributeClient_definition(field_map, field) == Values(Get(field_map, field))[1]

\* _unmarshall_response: one (field, field_value) item of the response
AttributeClient_unmarshall_field(field_map, response, field, field_value) ==
    IF ~Has(field_map, field) THEN Raise("KeyError")
    ELSE LET definition == AttributeClient_definition(field_map, field)
             field_type == definition.field_type
         IN IF field_type = "None" THEN Raise("KeyError")
            ELSE IF field_type = "bit"
            THEN AttributeClient_unmarshall_bits(response, definition.attributes, field_value)
            ELSE IF field_type = "packet_item"
            THEN LET decoded == Decode(field_value)
                 IN IF ~decoded.ok THEN decoded
                    ELSE AttributeClient_unmarshall_packet(
                            response, definition.attributes, SplitOn(decoded.val.str, " "))
            ELSE LET value == AttributeClient_unmarshall_value(field, field_type, field_value)
                 IN IF ~value.ok THEN value
                    ELSE Ok(AttributeResponse_add_query_response(
                                response, definition.attribute, value.val))

RECURSIVE AttributeClient_unmarshall_items(_, _, _)
AttributeClient_unmarshall_items(field_map, response, items) ==
    IF items = <<>> THEN Ok(response)
    ELSE LET step == AttributeClient_unmarshall_field(
                        field_map, response, items[1].k, items[1].v)
         IN IF ~step.ok THEN step
            ELSE AttributeClient_unmarshall_items(field_map, step.val, Tail(items))

\* AttributeClient._unmarshall_response
AttributeClient_unmarshall_response(field_map, response) ==
    AttributeClient_unmarshall_items(field_map, AttributeResponse, response)

----------------------------------------------------------------------------
(* The inputs the specifications draw from. *)

Attributes == Range(Keys(FruitAttributes))

BitAttributes ==
    {a \in Attributes :
        /\ HasMethod(Get(FruitAttributes, a), "write")
        /\ MethodOf(Get(FruitAttributes, a), "write").field_type = "bit"}

Setop(attribute, args) == [attribute |-> attribute, args |-> args]

\* setops on the bit attributes, with a true or a false argument
BitSetops == {Setop(a, <<PyBool(b)>>) : a \in BitAttributes, b \in BOOLEAN}

\* setops on the attributes of the other field types
PlainSetops ==
    {Setop("peeled", <<PyBool(TRUE)>>), Setop("peeled", <<PyBool(FALSE)>>),
     Setop("juiciness", <<PyFloat(987)>>)}

\* ordered query lists without repetition
QueryLists(n) == {q \in SeqsUpTo(Attributes, n) : Dedup(q) = q}

\* the request of the client-stack test
ScenarioQueries == <<"name", "juiciness", "peeled", "overripe", "under-ripe">>

ScenarioSetops == <<Setop("peeled", <<PyBool(TRUE)>>), Setop("chilled", <<PyBool(TRUE)>>)>>

ScenarioRequest == [queries |-> ScenarioQueries, setops |-> ScenarioSetops]

\* requests for the marshalling function: any short setop list with one of a
\* few query lists, or any short query list
MarshallRequests ==
    {[queries |-> q, setops |-> s] :
        q \in {<<>>, ScenarioQueries}, s \in SeqsUpTo(BitSetops \cup PlainSetops, MaxSetops)}
    \cup {[queries |-> q, setops |-> <<>>] : q \in QueryLists(MaxQueries)}

----------------------------------------------------------------------------
(* AttributeClient.send_receive, first step, and the specification that     *)
(* applies AttributeClient._marshall_request to generated requests.         *)

\* the parts of the state that a specification of one function leaves alone
\* no unmarshall call of the byte framer is under way
InitFramerIdle ==
    /\ payload = <<>>
    /\ chunks = <<>>
    /\ len_head = 0
    /\ len_data = 0
    /\ unit = None

\* no comparison is under way
InitCompareIdle ==
    /\ other = AttributeRequest
    /\ comparison = None

InitIdle ==
    /\ InitFramerIdle
    /\ InitCompareIdle
    /\ attribute_map = FruitAttributes
    /\ chain = TRUE
    /\ return_response = FALSE
    /\ timeout_retries = 0
    /\ setops = <<>>
    /\ queries = <<>>
    /\ sent = 0
    /\ connection_attempt = 0
    /\ calls = <<>>
    /\ scpi_response = ScpiResponse
    /\ attribute_response = AttributeResponse
    /\ raised = NoException
    /\ attribute_values = <<>>

InitMarshall ==
    /\ InitIdle
    /\ attribute_request \in MarshallRequests
    /\ scpi_request = ScpiRequest
    /\ responses = <<>>
    /\ pc = "start"

\* AttributeClient.send_receive: scpi_request = self._marshall_request(...)
Marshall ==
    /\ pc = "start"
    /\ LET result == AttributeClient_marshall_request(attribute_map, attribute_request)
       IN IF result.ok
          THEN /\ scpi_request' = result.val
               /\ raised' = raised
               /\ pc' = "marshalled"
          ELSE /\ scpi_request' = scpi_request
               /\ raised' = Exception(result)
               /\ pc' = "raised"
    /\ UNCHANGED <<attribute_map, chain, return_response, timeout_retries,
                   attribute_request, setops, queries, sent, connection_attempt,
                   responses, calls, scpi_response, attribute_response,
                   attribute_values>>
    /\ UNCHANGED <<framer_vars, compare_vars>>

NextMarshall == Marshall

SpecMarshall == InitMarshall /\ [][NextMarshall]_vars

----------------------------------------------------------------------------
(* ScpiClient.send_receive over a bytes client that may answer, time out or *)
(* fail, and the rest of AttributeClient.send_receive.                      *)

Text130 == <<"1", "3", "0">>

Text987 == <<"9", "8", ".", "7">>

\* b"orange;98.7;1;130", the reply of the client-stack test's bytes client
ScenarioReply ==
    PyBytes(<<"o", "r", "a", "n", "g", "e", ";">> \o Text987 \o <<";", "1", ";">> \o Text130)

\* what the bytes client may answer to a query unit
QueryReplies ==
    {ScenarioReply,
     PyBytes(Text987 \o <<";">> \o Text130),
     PyBytes(Text130),
     PyBytes(<<"1", ";", "2">>),
     PyBytes(<<>>)}

\* what the bytes client answers to a setop unit when a response is expected
SetopReplies == {PyBytes(<<"1">>)}

\* what the bytes client may raise: socket.timeout, or another transport error
TransportErrors == {"socket.timeout", "ConnectionError"}

\* requests handed to send_receive
SendRequests ==
    {[queries |-> q, setops |-> s] :
        q \in {<<>>, ScenarioQueries, <<"juiciness", "overripe">>},
        s \in {<<>>, ScenarioSetops,
               <<Setop("overripe", <<PyBool(TRUE)>>), Setop("juiciness", <<PyFloat(987)>>)>>}}

Init ==
    /\ InitFramerIdle
    /\ InitCompareIdle
    /\ attribute_map = FruitAttributes
    /\ attribute_request \in SendRequests
    /\ chain \in IF Len(attribute_request.queries) > MaxUnchained THEN {TRUE} ELSE BOOLEAN
    /\ return_response \in BOOLEAN
    /\ timeout_retries \in 0..MaxRetries
    /\ scpi_request = ScpiRequest
    /\ setops = <<>>
    /\ queries = <<>>
    /\ sent = 0
    /\ connection_attempt = 0
    /\ responses = <<>>
    /\ calls = <<>>
    /\ scpi_response = ScpiResponse
    /\ attribute_response = AttributeResponse
    /\ raised = NoException
    /\ attribute_values = <<>>
    /\ pc = "start"

\* one invocation of self._bytes_client, as the bytes client sees it
\* (request_bytes, expect_response) and as it ended (outcome, reply), with the
\* loop, unit position and attempt of send_receive that made it
Call(request_bytes, expect_response, loop, index, attempt, outcome, reply) ==
    [request_bytes |-> request_bytes, expect_response |-> expect_response,
     loop |-> loop, index |-> index, attempt |-> attempt,
     outcome |-> outcome, reply |-> reply]

\* where send_receive goes once the setop loop is over
AfterSetops(query_units) == IF query_units # <<>> THEN "queries" ELSE "unmarshall"

\* ScpiClient.send_receive: (setops, queries) = self._marshall_request(...)
ScpiMarshall ==
    /\ pc = "marshalled"
    /\ LET units == ScpiClient_marshall_request(scpi_request, chain, argument_separator)
       IN /\ setops' = units.setops
          /\ queries' = units.queries
          /\ pc' = IF units.setops # <<>> THEN "setops" ELSE AfterSetops(units.queries)
    /\ sent' = 0
    /\ connection_attempt' = 1
    /\ UNCHANGED <<attribute_map, chain, return_response, timeout_retries,
                   attribute_request, scpi_request, responses, calls,
                   scpi_response, attribute_response, raised, attribute_values>>
    /\ UNCHANGED <<framer_vars, compare_vars>>

\* a variant of the setop loop that collects the acknowledgement
ScpiClient_setop_reply_collected(received, reply) ==
    IF reply = None THEN received ELSE Append(received, reply)

\* send_receive, setop loop: what a setop unit's reply does to responses
ScpiClient_setop_reply(received, reply) == received

\* a variant of the setop loop that hands every setop unit to the bytes
\* client a second time
SetopReturns_twice ==
    /\ pc = "setops"
    /\ \E reply \in IF return_response THEN SetopReplies ELSE {None} :
          /\ calls' = calls \o << Call(setops[sent + 1], return_response,
                                       "setops", sent + 1, 1, "returned", reply),
                                  Call(setops[sent + 1], return_response,
                                       "setops", sent + 1, 2, "returned", reply) >>
          /\ responses' = ScpiClient_setop_reply(responses, reply)
    /\ IF sent + 1 < Len(setops)
       THEN sent' = sent + 1 /\ pc' = pc
       ELSE sent' = 0 /\ pc' = AfterSetops(queries)
    /\ UNCHANGED <<attribute_map, chain, return_response, timeout_retries,
                   attribute_request, scpi_request, setops, queries,
                   connection_attempt, scpi_response, attribute_response,
                   raised, attribute_values>>
    /\ UNCHANGED <<framer_vars, compare_vars>>

\* send_receive, setop loop: the bytes client returns
SetopReturns ==
    /\ pc = "setops"
    /\ \E reply \in IF return_response THEN SetopReplies ELSE {None} :
          /\ calls' = Append(calls, Call(setops[sent + 1], return_response,
                                         "setops", sent + 1, 1, "returned", reply))
          /\ responses' = ScpiClient_setop_reply(responses, reply)
    /\ IF sent + 1 < Len(setops)
       THEN sent' = sent + 1 /\ pc' = pc
       ELSE sent' = 0 /\ pc' = AfterSetops(queries)
    /\ UNCHANGED <<attribute_map, chain, return_response, timeout_retries,
                   attribute_request, scpi_request, setops, queries,
                   connection_attempt, scpi_response, attribute_response,
                   raised, attribute_values>>
    /\ UNCHANGED <<framer_vars, compare_vars>>

\* send_receive, setop loop: the bytes client raises; nothing catches it
SetopRaises ==
    /\ pc = "setops"
    /\ \E e \in TransportErrors :
          /\ calls' = Append(calls, Call(setops[sent + 1], return_response,
                                         "setops", sent + 1, 1, e, None))
          /\ raised' = [err |-> e, message |-> <<>>]
    /\ pc' = "raised"
    /\ UNCHANGED <<attribute_map, chain, return_response, timeout_retries,
                   attribute_request, scpi_request, setops, queries, sent,
                   connection_attempt, responses, scpi_response,
                   attribute_response, attribute_values>>
    /\ UNCHANGED <<framer_vars, compare_vars>>

\* send_receive, query loop: self._bytes_client(query) returned response_bytes
QueryReturned(reply) ==
    /\ calls' = Append(calls, Call(queries[sent + 1], TRUE, "queries", sent + 1,
                                   connection_attempt, "returned", reply))
    /\ responses' = Append(responses, reply)
    /\ connection_attempt' = 1
    /\ IF sent + 1 < Len(queries)
       THEN sent' = sent + 1 /\ pc' = pc
       ELSE sent' = 0 /\ pc' = "unmarshall"
    /\ UNCHANGED <<attribute_map, chain, return_response, timeout_retries,
                   attribute_request, scpi_request, setops, queries,
                   scpi_response, attribute_response, raised>>

\* send_receive, query loop: the bytes client returns response_bytes
QueryReturns ==
    /\ pc = "queries"
    /\ connection_attempt \in ScpiClient_attempts(timeout_retries)
    /\ \E reply \in QueryReplies : QueryReturned(reply)
    /\ UNCHANGED attribute_values
    /\ UNCHANGED <<framer_vars, compare_vars>>

\* a variant of the except clause that catches every exception
ScpiClient_catches_all(e) == TRUE

\* send_receive: except socket.timeout
ScpiClient_catches(e) == e = "socket.timeout"

\* send_receive, query loop: self._bytes_client(query) raised e
QueryRaised(e) ==
    /\ calls' = Append(calls, Call(queries[sent + 1], TRUE, "queries", sent + 1,
                                   connection_attempt, e, None))
    /\ IF ~ScpiClient_catches(e) \/ ScpiClient_reraise(connection_attempt, timeout_retries)
       THEN /\ raised' = [err |-> e, message |-> <<>>]
            /\ pc' = "raised"
            /\ UNCHANGED <<sent, connection_attempt>>
       ELSE IF connection_attempt + 1 \in ScpiClient_attempts(timeout_retries)
       THEN /\ connection_attempt' = connection_attempt + 1
            /\ UNCHANGED <<sent, pc, raised>>
       ELSE \* the for loop ends without a response: on to the next unit
            /\ connection_attempt' = 1
            /\ raised' = raised
            /\ IF sent + 1 < Len(queries)
               THEN sent' = sent + 1 /\ pc' = pc
               ELSE sent' = 0 /\ pc' = "unmarshall"
    /\ UNCHANGED <<attribute_map, chain, return_response, timeout_retries,
                   attribute_request, scpi_request, setops, queries, responses,
                   scpi_response, attribute_response>>

\* send_receive, query loop: the bytes client raises
QueryRaises ==
    /\ pc = "queries"
    /\ connection_attempt \in ScpiClient_attempts(timeout_retries)
    /\ \E e \in TransportErrors : QueryRaised(e)
    /\ UNCHANGED attribute_values
    /\ UNCHANGED <<framer_vars, compare_vars>>

\* send_receive: scpi_response = self._unmarshall_response(responses, response_fields)
Unmarshall ==
    /\ pc = "unmarshall"
    /\ LET result == ScpiClient_unmarshall_response(responses, scpi_request.queries)
       IN IF result.ok
          THEN /\ scpi_response' = result.val
               /\ raised' = raised
               /\ pc' = "scpi_response"
          ELSE /\ scpi_response' = scpi_response
               /\ raised' = Exception(result)
               /\ pc' = "raised"
    /\ UNCHANGED <<attribute_map, chain, return_response, timeout_retries,
                   attribute_request, scpi_request, setops, queries, sent,
                   connection_attempt, responses, calls, attribute_response,
                   attribute_values>>
    /\ UNCHANGED <<framer_vars, compare_vars>>

\* AttributeClient.send_receive: attribute_response = self._unmarshall_response(...)
AttributeUnmarshall ==
    /\ pc = "scpi_response"
    /\ LET result == AttributeClient_unmarshall_response(
                        AttributeClient_field_map(attribute_map), scpi_response)
       IN IF result.ok
          THEN /\ attribute_response' = result.val
               /\ raised' = raised
               /\ pc' = "done"
          ELSE /\ attribute_response' = attribute_response
               /\ raised' = Exception(result)
               /\ pc' = "raised"
    /\ UNCHANGED <<attribute_map, chain, return_response, timeout_retries,
                   attribute_request, scpi_request, setops, queries, sent,
                   connection_attempt, responses, calls, scpi_response,
                   attribute_values>>
    /\ UNCHANGED <<framer_vars, compare_vars>>

Next ==
    \/ Marshall
    \/ ScpiMarshall
    \/ SetopReturns
    \/ SetopRaises
    \/ QueryReturns
    \/ QueryRaises
    \/ Unmarshall
    \/ AttributeUnmarshall

Spec == Init /\ [][Next]_vars

----------------------------------------------------------------------------
(* bytes_server.py: ScpiBytesServer. *)

\* command.endswith("?")
EndsWithQuery(command) == command # <<>> /\ command[Len(command)] = "?"

\* the last position at which sep occurs in text, or 0
LastIndexOf(text, sep) ==
    LET at == {i \in 1..(Len(text) - Len(sep) + 1) :
                  SubSeq(text, i, i + Len(sep) - 1) = sep}
    IN IF at = {} THEN 0 ELSE CHOOSE i \in at : \A j \in at : j <= i

\* command.rsplit(separator, 1)
RSplitOnce(command, sep) ==
    LET i == LastIndexOf(command, sep)
    IN IF i = 0 THEN <<command>>
       ELSE <<SubSeq(command, 1, i - 1), SubSeq(command, i + Len(sep), Len(command))>>

\* ScpiBytesServer._unmarshall_request: one command of the loop
ScpiBytesServer_unmarshall_command(request, command, separator) ==
    IF EndsWithQuery(command)
    THEN ScpiRequest_add_query(request, SubSeq(command, 1, Len(command) - 1))
    ELSE LET parts == RSplitOnce(command, separator)
         IN ScpiRequest_add_setop(request, parts[1], Tail(parts), FALSE)

RECURSIVE ScpiBytesServer_unmarshall_commands(_, _, _)
ScpiBytesServer_unmarshall_commands(request, commands, separator) ==
    IF commands = <<>> THEN request
    ELSE ScpiBytesServer_unmarshall_commands(
            ScpiBytesServer_unmarshall_command(request, Strip(commands[1]), separator),
            Tail(commands), separator)

\* ScpiBytesServer._unmarshall_request
ScpiBytesServer_unmarshall_request(request_bytes, separator) ==
    ScpiBytesServer_unmarshall_commands(
        ScpiRequest, SplitOn(Strip(request_bytes.bytes), ";"), separator)

\* ScpiBytesServer._marshall_response: b";".join(...) takes bytes items only,
\* and None has no responses
ScpiBytesServer_marshall_response(scpi_server_response) ==
    IF IsA(scpi_server_response, "none") THEN Raise("AttributeError")
    ELSE LET values == Values(scpi_server_response.responses)
         IN IF \E i \in DOMAIN values : ~IsA(values[i], "bytes")
            THEN Raise("TypeError")
            ELSE Ok(PyBytes(Join([i \in DOMAIN values |-> values[i].bytes], <<";">>)))

----------------------------------------------------------------------------
(* scpi_server.py: ScpiServer. *)

\* ScpiServer.__init__: one (attribute, method) step of the loop that builds
\* _field_map; a bit field is registered with field type "bits"
ScpiServer_field_map_step(field_map, attribute, binding) ==
    LET field == binding.field
        method == binding.method
        fm == IF Has(field_map, field) THEN field_map ELSE Put(field_map, field, <<>>)
        methods == Get(fm, field)
    IN IF binding.field_type # "None"
       THEN IF binding.field_type = "bit"
            THEN LET old == IF Has(methods, method) THEN Get(methods, method)
                            ELSE FieldInfo("bits", "", <<>>)
                     new == [old EXCEPT !.attributes = Put(@, binding.index, attribute)]
                 IN Put(fm, field, Put(methods, method, new))
            ELSE Put(fm, field,
                     Put(methods, method, FieldInfo(binding.field_type, attribute, <<>>)))
       ELSE Put(fm, field, << [k |-> method, v |-> FieldInfo("None", attribute, <<>>)] >>)

RECURSIVE ScpiServer_field_map_methods(_, _, _)
ScpiServer_field_map_methods(field_map, attribute, bindings) ==
    \* the map so far is evaluated before the next step is taken
    IF bindings = <<>> \/ Len(field_map) < 0 THEN field_map
    ELSE ScpiServer_field_map_methods(
            ScpiServer_field_map_step(field_map, attribute, bindings[1]),
            attribute, Tail(bindings))

RECURSIVE ScpiServer_field_map_from(_, _)
ScpiServer_field_map_from(field_map, definitions) ==
    \* the map so far is evaluated before the next step is taken
    IF definitions = <<>> \/ Len(field_map) < 0 THEN field_map
    ELSE ScpiServer_field_map_from(
            ScpiServer_field_map_methods(field_map, definitions[1].k, definitions[1].v),
            Tail(definitions))

\* ScpiServer.__init__: self._field_map
ScpiServer_field_map(definitions) == ScpiServer_field_map_from(<<>>, definitions)

RECURSIVE ScpiServer_unmarshall_queries(_, _, _)
\* _unmarshall_request, first loop: the attributes read through each queried
\* field; an unknown field is skipped
ScpiServer_unmarshall_queries(field_map, fields, attributes) ==
    IF fields = <<>> THEN Ok(attributes)
    ELSE IF ~Has(field_map, fields[1])
    THEN ScpiServer_unmarshall_queries(field_map, Tail(fields), attributes)
    ELSE LET definition == Get(field_map, fields[1])
         IN IF ~Has(definition, "read") THEN Raise("KeyError")
            ELSE IF Get(definition, "read").field_type = "None" THEN Raise("KeyError")
            ELSE IF Get(definition, "read").field_type = "bits"
            THEN ScpiServer_unmarshall_queries(
                    field_map, Tail(fields),
                    attributes \o Values(Get(definition, "read").attributes))
            ELSE ScpiServer_unmarshall_queries(
                    field_map, Tail(fields),
                    Append(attributes, Get(definition, "read").attribute))

RECURSIVE ScpiServer_unmarshall_bits_set_only(_, _, _)
\* a variant of the bits branch that adds a setop only for a bit that is set
ScpiServer_unmarshall_bits_set_only(request, registered, value) ==
    IF registered = <<>> THEN request
    ELSE ScpiServer_unmarshall_bits_set_only(
            IF BitIsSet(value, registered[1].k)
            THEN AttributeRequest_add_setop(request, registered[1].v, <<PyBool(TRUE)>>)
            ELSE request,
            Tail(registered), value)

RECURSIVE ScpiServer_unmarshall_bits(_, _, _)
\* _unmarshall_request, bits branch: one setop per registered bit
ScpiServer_unmarshall_bits(request, registered, value) ==
    IF registered = <<>> THEN request
    ELSE ScpiServer_unmarshall_bits(
            AttributeRequest_add_setop(
                request, registered[1].v, <<PyBool(BitIsSet(value, registered[1].k))>>),
            Tail(registered), value)

RECURSIVE ScpiServer_convert_args(_, _)
\* [float(arg) for arg in args] and [int(arg) for arg in args]
ScpiServer_convert_args(field_type, args) ==
    IF args = <<>> THEN Ok(<<>>)
    ELSE LET first == IF field_type = "float" THEN StrToFloat(args[1]) ELSE StrToInt(args[1])
             rest == ScpiServer_convert_args(field_type, Tail(args))
         IN IF ~first.ok THEN first
            ELSE IF ~rest.ok THEN rest
            ELSE Ok(<< IF field_type = "float" THEN PyFloat(first.val) ELSE PyInt(first.val) >>
                    \o rest.val)

\* _unmarshall_request, second loop: one (field, args) setop
ScpiServer_unmarshall_setop(field_map, request, setop) ==
    IF ~Has(field_map, setop.field) THEN Ok(request)
    ELSE IF ~Has(Get(field_map, setop.field), "write") THEN Ok(request)
    ELSE LET write == Get(Get(field_map, setop.field), "write")
         IN CASE write.field_type = "bits" ->
                    IF setop.args = <<>> THEN Raise("IndexError")
                    ELSE LET value == StrToInt(setop.args[1])
                         IN IF ~value.ok THEN value
                            ELSE Ok(ScpiServer_unmarshall_bits(
                                        request, write.attributes, value.val))
              [] write.field_type = "None" ->
                    Ok(AttributeRequest_add_setop(request, write.attribute, <<>>))
              [] write.field_type = "bool" ->
                    Ok(AttributeRequest_add_setop(
                        request, write.attribute,
                        [i \in DOMAIN setop.args |-> PyBool(setop.args[i] = <<"1">>)]))
              [] write.field_type \in {"float", "int"} ->
                    LET converted == ScpiServer_convert_args(write.field_type, setop.args)
                    IN IF ~converted.ok THEN converted
                       ELSE Ok(AttributeRequest_add_setop(
                                   request, write.attribute, converted.val))
              [] write.field_type = "str" ->
                    Ok(AttributeRequest_add_setop(
                        request, write.attribute,
                        [i \in DOMAIN setop.args |-> PyStr(setop.args[i])]))
              [] OTHER -> Raise("ValueError")

RECURSIVE ScpiServer_unmarshall_setops_until_unknown(_, _, _)
\* a variant of the second loop that ends at the first unknown field
ScpiServer_unmarshall_setops_until_unknown(field_map, request, pending) ==
    IF pending = <<>> THEN Ok(request)
    ELSE IF ~Has(field_map, pending[1].field) THEN Ok(request)
    ELSE LET result == ScpiServer_unmarshall_setop(field_map, request, pending[1])
         IN IF ~result.ok THEN result
            ELSE ScpiServer_unmarshall_setops_until_unknown(
                    field_map, result.val, Tail(pending))

RECURSIVE ScpiServer_unmarshall_setops(_, _, _)
ScpiServer_unmarshall_setops(field_map, request, pending) ==
    IF pending = <<>> THEN Ok(request)
    ELSE LET result == ScpiServer_unmarshall_setop(field_map, request, pending[1])
         IN IF ~result.ok THEN result
            ELSE ScpiServer_unmarshall_setops(field_map, result.val, Tail(pending))

\* ScpiServer._unmarshall_request
ScpiServer_unmarshall_request(field_map, request) ==
    LET attributes == ScpiServer_unmarshall_queries(field_map, request.queries, <<>>)
    IN IF ~attributes.ok THEN attributes
       ELSE ScpiServer_unmarshall_setops(
                field_map,
                AttributeRequest_set_queries(AttributeRequest, attributes.val),
                request.setops)

\* _marshall_response: one attribute of the loop; the definition is the first
\* binding of the attribute, and every value is marshalled to a str
ScpiServer_marshall_attribute(definitions, response, attribute, value) ==
    IF ~Has(definitions, attribute) THEN Raise("KeyError")
    ELSE IF Get(definitions, attribute) = <<>> THEN Raise("IndexError")
    ELSE LET definition == Get(definitions, attribute)[1]
             field == definition.field
         IN CASE definition.field_type = "None" -> Raise("KeyError")
              [] definition.field_type = "bit" ->
                    LET field_value == IF Has(response, field) THEN Get(response, field)
                                       ELSE PyStr(<<"0">>)
                    IN IF ~Truthy(value)
                       THEN Ok(ScpiResponse_add_query_response(response, field, field_value))
                       ELSE IF definition.index < 0 THEN Raise("KeyError")
                       ELSE LET number == IntOf(field_value)
                            IN IF ~number.ok THEN number
                               ELSE Ok(ScpiResponse_add_query_response(
                                        response, field,
                                        PyStr(IntToStr(BitOr(number.val, definition.index)))))
              [] definition.field_type = "bool" ->
                    Ok(ScpiResponse_add_query_response(
                        response, field,
                        PyStr(IF Truthy(value) THEN <<"1">> ELSE <<"0">>)))
              [] OTHER ->
                    Ok(ScpiResponse_add_query_response(response, field, PyStr(ToStr(value))))

RECURSIVE ScpiServer_marshall_attributes(_, _, _)
ScpiServer_marshall_attributes(definitions, response, pending) ==
    IF pending = <<>> THEN Ok(response)
    ELSE LET result == ScpiServer_marshall_attribute(
                          definitions, response, pending[1].k, pending[1].v)
         IN IF ~result.ok THEN result
            ELSE ScpiServer_marshall_attributes(definitions, result.val, Tail(pending))

\* ScpiServer._marshall_response
ScpiServer_marshall_response(definitions, response) ==
    ScpiServer_marshall_attributes(definitions, ScpiResponse, response)

----------------------------------------------------------------------------
(* scpi_simulator.py: ScpiSimulator. *)

\* ScpiSimulator.set_attribute
ScpiSimulator_set_attribute(values, name, value) == Put(values, name, value)

\* ScpiSimulator.get_attribute
ScpiSimulator_get_attribute(values, name) ==
    IF Has(values, name) THEN Ok(Get(values, name)) ELSE Raise("KeyError")

RECURSIVE ScpiSimulator_init(_, _)
\* ScpiSimulator.__init__: each initial value is set in turn
ScpiSimulator_init(values, initial_values) ==
    IF initial_values = <<>> THEN values
    ELSE ScpiSimulator_init(
            ScpiSimulator_set_attribute(values, initial_values[1].k, initial_values[1].v),
            Tail(initial_values))

\* the callables that getattr(self, name, None) finds on the simulator itself
ScpiSimulator_methods == {"receive_send", "set_attribute", "get_attribute"}

\* what receive_send hands back: the result, and _attribute_values afterwards
Served(result, values) == [result |-> result, attribute_values |-> values]

RECURSIVE ScpiSimulator_setops(_, _)
\* receive_send, first loop; a name that getattr finds is called with the
\* setop's arguments, which none of the simulator's own methods accepts for a
\* write of an attribute value
ScpiSimulator_setops(values, pending) ==
    IF pending = <<>> THEN Served(Ok(None), values)
    ELSE IF pending[1].attribute \in ScpiSimulator_methods
    THEN Served(Raise("TypeError"), values)
    ELSE IF pending[1].args = <<>> THEN Served(Raise("ValueError"), values)
    ELSE ScpiSimulator_setops(
            ScpiSimulator_set_attribute(values, pending[1].attribute, pending[1].args[1]),
            Tail(pending))

RECURSIVE ScpiSimulator_queries(_, _, _)
\* receive_send, second loop; a name that getattr finds is called without
\* arguments, which every method of the simulator rejects
ScpiSimulator_queries(values, response, pending) ==
    IF pending = <<>> THEN Ok(response)
    ELSE IF pending[1] \in ScpiSimulator_methods THEN Raise("TypeError")
    ELSE LET value == ScpiSimulator_get_attribute(values, pending[1])
         IN IF ~value.ok THEN value
            ELSE ScpiSimulator_queries(
                    values,
                    AttributeResponse_add_query_response(response, pending[1], value.val),
                    Tail(pending))

\* receive_send, after the first loop: the queries are answered from the
\* values as the setops left them
ScpiSimulator_answer(written, pending) ==
    IF ~written.result.ok THEN written
    ELSE Served(ScpiSimulator_queries(written.attribute_values, AttributeResponse, pending),
                written.attribute_values)

\* ScpiSimulator.receive_send
ScpiSimulator_receive_send(values, request) ==
    ScpiSimulator_answer(ScpiSimulator_setops(values, request.setops), request.queries)

\* ScpiServer.receive_send returns the ScpiResponse, as [responses |-> dict]
ScpiServer_returned(marshalled) ==
    IF marshalled.ok THEN Ok([responses |-> marshalled.val]) ELSE marshalled

\* ScpiServer.receive_send, from the return of the attribute server on: its
\* ValueError is logged and None is returned
ScpiServer_respond(definitions, served) ==
    IF served.result.ok
    THEN Served(ScpiServer_returned(
                    ScpiServer_marshall_response(definitions, served.result.val)),
                served.attribute_values)
    ELSE IF served.result.err = "ValueError"
    THEN Served(Ok(None), served.attribute_values)
    ELSE served

\* ScpiServer.receive_send, from the return of _unmarshall_request on
ScpiServer_serve(definitions, values, unmarshalled) ==
    IF ~unmarshalled.ok THEN Served(unmarshalled, values)
    ELSE ScpiServer_respond(
            definitions, ScpiSimulator_receive_send(values, unmarshalled.val))

\* ScpiServer.receive_send
ScpiServer_receive_send(definitions, values, request) ==
    ScpiServer_serve(
        definitions, values,
        ScpiServer_unmarshall_request(ScpiServer_field_map(definitions), request))

\* ScpiBytesServer.receive_send, from the return of the SCPI server on
ScpiBytesServer_respond(served) ==
    IF ~served.result.ok THEN served
    ELSE Served(ScpiBytesServer_marshall_response(served.result.val),
                served.attribute_values)

\* ScpiBytesServer.receive_send
ScpiBytesServer_receive_send(definitions, values, request_bytes, separator) ==
    ScpiBytesServer_respond(
        ScpiServer_receive_send(
            definitions, values,
            ScpiBytesServer_unmarshall_request(request_bytes, separator)))

----------------------------------------------------------------------------
(* The full stack: the bytes client of ScpiClient delivers each unit to the *)
(* simulator's ScpiBytesServer.receive_send.  A request with no setops.     *)

\* initial values of the simulator, one per defined attribute
InitialValues ==
    {<< [k |-> "name", v |-> PyStr(<<"o", "r", "a", "n", "g", "e">>)],
        [k |-> "juiciness", v |-> PyFloat(987)],
        [k |-> "peeled", v |-> PyBool(peeled)],
        [k |-> "overripe", v |-> PyBool(overripe)],
        [k |-> "under-ripe", v |-> PyBool(FALSE)],
        [k |-> "chilled", v |-> PyBool(chilled)] >> :
        peeled \in BOOLEAN, overripe \in BOOLEAN, chilled \in BOOLEAN}

\* query lists: any few attributes in any order, or all of them
E2ERequests ==
    {[queries |-> q, setops |-> <<>>] :
        q \in QueryLists(MaxE2EQueries) \cup {Keys(FruitAttributes)}}

InitE2E ==
    /\ InitFramerIdle
    /\ InitCompareIdle
    /\ attribute_map = FruitAttributes
    /\ attribute_request \in E2ERequests
    /\ chain \in IF Len(attribute_request.queries) > MaxUnchained THEN {TRUE} ELSE BOOLEAN
    /\ return_response = FALSE
    /\ timeout_retries \in 0..MaxE2ERetries
    /\ scpi_request = ScpiRequest
    /\ setops = <<>>
    /\ queries = <<>>
    /\ sent = 0
    /\ connection_attempt = 0
    /\ responses = <<>>
    /\ calls = <<>>
    /\ scpi_response = ScpiResponse
    /\ attribute_response = AttributeResponse
    /\ raised = NoException
    /\ \E initial_values \in InitialValues :
          attribute_values = ScpiSimulator_init(<<>>, initial_values)
    /\ pc = "start"

\* send_receive, query loop: what the bytes client does with the outcome of
\* the server's handler; its return value is the reply, and when it raised no
\* reply is sent and the bytes client fails
ServedQuery(served) ==
    /\ attribute_values' = served.attribute_values
    /\ IF served.result.ok
       THEN QueryReturned(served.result.val)
       ELSE \E e \in TransportErrors : QueryRaised(e)

\* send_receive, query loop, with the simulator behind the bytes client: the
\* unit is handled by ScpiBytesServer.receive_send
ServeQuery ==
    /\ pc = "queries"
    /\ connection_attempt \in ScpiClient_attempts(timeout_retries)
    /\ ServedQuery(ScpiBytesServer_receive_send(
                      attribute_map, attribute_values, queries[sent + 1],
                      argument_separator))
    /\ UNCHANGED <<framer_vars, compare_vars>>

NextE2E ==
    \/ Marshall
    \/ ScpiMarshall
    \/ ServeQuery
    \/ Unmarshall
    \/ AttributeUnmarshall

SpecE2E == InitE2E /\ [][NextE2E]_vars

----------------------------------------------------------------------------
(* Claims about the full stack (SpecE2E). *)

\* send_receive has returned or raised
Finished == pc \in {"done", "raised"}

\* every queried attribute maps to the value the simulator stores for it
ReturnsStoredValues ==
    \A i \in DOMAIN attribute_request.queries :
        LET attribute == attribute_request.queries[i]
        IN /\ Has(attribute_response, attribute)
           /\ Get(attribute_response, attribute) = Get(attribute_values, attribute)

\* C1: a query of any subset of the defined float, str, bool and bit
\* attributes, in any order and with no setops, sent through the full stack,
\* makes AttributeClient.send_receive return a response in which every queried
\* attribute maps to the value currently stored for it in the simulator.
C1_E2EQueryReturnsStoredValues ==
    Finished => pc = "done" /\ ReturnsStoredValues

----------------------------------------------------------------------------
(* Claims about AttributeClient._marshall_request (SpecMarshall). *)

\* the setops of a ScpiRequest that target one field
SetopsOf(request, field) ==
    LET OnField(setop) == setop.field = field
    IN SelectSeq(request.setops, OnField)

\* the setops of an AttributeRequest whose write binding is a bit of FLAGS
FlagSetops(request) ==
    LET OnFlags(setop) == setop.attribute \in BitAttributes
    IN SelectSeq(request.setops, OnFlags)

WriteBit(attribute) == MethodOf(Get(FruitAttributes, attribute), "write").index

RECURSIVE FoldFlags(_)
\* start from 0 and, in setop order, OR the mask in for a truthy argument and
\* AND-NOT it out for a falsy one
FoldFlags(bit_setops) ==
    IF bit_setops = <<>> THEN 0
    ELSE LET last == bit_setops[Len(bit_setops)]
             before == FoldFlags(SubSeq(bit_setops, 1, Len(bit_setops) - 1))
         IN IF Truthy(last.args[1])
            THEN BitOr(before, WriteBit(last.attribute))
            ELSE BitAndNot(before, WriteBit(last.attribute))

\* C2: any sequence of setops on bit bindings of one field, each with a truthy
\* or a falsy argument, marshalls to exactly one setop for that field, whose
\* single argument is the flag value folded over the setops in order.
C2_BitSetopsCollapse ==
    (/\ pc = "marshalled"
     /\ attribute_request.setops # <<>>
     /\ FlagSetops(attribute_request) = attribute_request.setops)
    => SetopsOf(scpi_request, FLAGS)
         = << [field |-> FLAGS,
               args |-> <<IntToStr(FoldFlags(attribute_request.setops))>>] >>

\* the two setops of C3, in either order, among setops on other fields
SetsBits0And7(request) ==
    FlagSetops(request) \in
        { <<Setop("overripe", <<PyBool(TRUE)>>), Setop("chilled", <<PyBool(TRUE)>>)>>,
          <<Setop("chilled", <<PyBool(TRUE)>>), Setop("overripe", <<PyBool(TRUE)>>)>> }

\* C3 as stated: setting the attributes at bit 0 and bit 7 of FLAGS to true in
\* one request gives exactly one FLAGS setop, with value 130.
C3_Bits0And7Give130 ==
    (pc = "marshalled" /\ SetsBits0And7(attribute_request))
    => SetopsOf(scpi_request, FLAGS)
         = << [field |-> FLAGS, args |-> <<<<"1", "3", "0">>>>] >>

\* C3 amended: setting the attributes at bit 0 and bit 7 of FLAGS to true in
\* one request gives exactly one FLAGS setop, with value 129 (binary 10000001).
C3_Bits0And7Give129 ==
    (pc = "marshalled" /\ SetsBits0And7(attribute_request))
    => SetopsOf(scpi_request, FLAGS)
         = << [field |-> FLAGS, args |-> <<<<"1", "2", "9">>>>] >>

\* C3 witness: such a request, with a setop on another field, has been marshalled
C3_Witness ==
    /\ pc = "marshalled"
    /\ SetsBits0And7(attribute_request)
    /\ Len(attribute_request.setops) = 3
    /\ Len(SetopsOf(scpi_request, FLAGS)) = 1

----------------------------------------------------------------------------
(* Claims about send_receive (Spec). *)

IsPrefix(s, t) == Len(s) <= Len(t) /\ s = SubSeq(t, 1, Len(s))

\* b"PEEL 1;FLAGS 128"
ScenarioSetopUnit ==
    PyBytes(PEEL \o <<" ", "1", ";">> \o FLAGS \o <<" ", "1", "2", "8">>)

\* b"NAME?;JUIC?;PEEL?;FLAGS?"
ScenarioQueryUnit ==
    PyBytes(NAME \o <<"?", ";">> \o JUIC \o <<"?", ";">> \o PEEL \o <<"?", ";">>
            \o FLAGS \o <<"?">>)

\* the units handed to the bytes client, a retried unit counted once
Handed ==
    LET First(call) == call.attempt = 1
        first == SelectSeq(calls, First)
    IN [i \in DOMAIN first |-> first[i].request_bytes]

\* C4: in the fruit scenario with chaining, the client hands the transport
\* exactly two units: the setop unit 'PEEL 1;FLAGS 128' and then the query
\* unit 'NAME?;JUIC?;PEEL?;FLAGS?' (one FLAGS? for the two FLAGS attributes).
C4_ScenarioTransmit ==
    (attribute_request = ScenarioRequest /\ chain)
    => /\ pc \notin {"start", "marshalled"}
            => setops = <<ScenarioSetopUnit>> /\ queries = <<ScenarioQueryUnit>>
       /\ IsPrefix(Handed, <<ScenarioSetopUnit, ScenarioQueryUnit>>)
       /\ \A i \in DOMAIN calls :
            calls[i].request_bytes \in {ScenarioSetopUnit, ScenarioQueryUnit}
       /\ pc \in {"unmarshall", "scpi_response", "done"}
            => Handed = <<ScenarioSetopUnit, ScenarioQueryUnit>>

\* C4 witness: the scenario's two units have been sent and answered
C4_Witness ==
    /\ attribute_request = ScenarioRequest
    /\ chain
    /\ pc = "unmarshall"
    /\ Len(calls) = 2
    /\ calls[2].request_bytes = ScenarioQueryUnit

\* the response C5 expects
ScenarioExpected ==
    << [k |-> "name", v |-> PyStr(<<"o", "r", "a", "n", "g", "e">>)],
       [k |-> "juiciness", v |-> PyFloat(987)],
       [k |-> "peeled", v |-> PyBool(TRUE)],
       [k |-> "overripe", v |-> PyBool(FALSE)],
       [k |-> "under-ripe", v |-> PyBool(TRUE)] >>

\* two dicts hold the same items
SameItems(d, e) ==
    /\ Len(d) = Len(e)
    /\ \A i \in DOMAIN e : Has(d, e[i].k) /\ Get(d, e[i].k) = e[i].v

\* C5: in the fruit scenario, when the transport answers the query unit with
\* 'orange;98.7;1;130', send_receive returns exactly {name: "orange",
\* juiciness: 98.7, peeled: true, overripe: false, under-ripe: true}.
C5_ScenarioResponse ==
    (/\ attribute_request = ScenarioRequest
     /\ chain
     /\ responses = <<ScenarioReply>>
     /\ pc \in {"done", "raised"})
    => pc = "done" /\ SameItems(attribute_response, ScenarioExpected)

\* the attributes registered on the read side of FLAGS, with their bits
FlagsRegistered ==
    {a \in Attributes :
        /\ HasMethod(Get(FruitAttributes, a), "read")
        /\ MethodOf(Get(FruitAttributes, a), "read").field = FLAGS}

ReadBit(attribute) == MethodOf(Get(FruitAttributes, attribute), "read").index

\* C6: when a returned field is a bit field, the response holds one boolean
\* for every attribute registered on the field, queried or not, equal to its
\* bit of the field's value; FLAGS=130 gives overripe=false, under-ripe=true,
\* chilled=true.
C6_BitGroupAllRegistered ==
    (pc = "done" /\ Has(scpi_response, FLAGS))
    => LET value == DigitsToInt(Get(scpi_response, FLAGS).str)
       IN /\ \A a \in FlagsRegistered :
                /\ Has(attribute_response, a)
                /\ Get(attribute_response, a)
                     = PyBool((value \div (2 ^ ReadBit(a))) % 2 = 1)
          /\ Get(scpi_response, FLAGS) = PyStr(Text130)
                => /\ Get(attribute_response, "overripe") = PyBool(FALSE)
                   /\ Get(attribute_response, "under-ripe") = PyBool(TRUE)
                   /\ Get(attribute_response, "chilled") = PyBool(TRUE)

\* C6 witness: FLAGS=130 was decoded and chilled, which was not queried, is true
C6_Witness ==
    /\ pc = "done"
    /\ "chilled" \notin Range(attribute_request.queries)
    /\ Has(scpi_response, FLAGS)
    /\ Get(scpi_response, FLAGS) = PyStr(Text130)
    /\ Get(attribute_response, "chilled") = PyBool(TRUE)

\* the calls of the query loop made for the same unit as call i, before it
EarlierAttempts(i) ==
    {j \in 1..(i - 1) : calls[j].loop = "queries" /\ calls[j].index = calls[i].index}

\* C7: for each query unit the transport is invoked at most timeout_retries + 1
\* times; a timeout on attempt k <= timeout_retries is followed by another
\* attempt of the same unit; the timeout reaches the caller exactly when
\* attempt timeout_retries + 1 times out; after a success the unit is not
\* attempted again.
C7_RetryBound ==
    \A i \in DOMAIN calls :
        calls[i].loop = "queries"
        => /\ calls[i].attempt = Cardinality(EarlierAttempts(i)) + 1
           /\ calls[i].attempt <= timeout_retries + 1
           /\ \A j \in EarlierAttempts(i) : calls[j].outcome = "socket.timeout"
           /\ (calls[i].outcome = "socket.timeout" /\ calls[i].attempt <= timeout_retries)
                => IF i < Len(calls)
                   THEN /\ calls[i + 1].loop = "queries"
                        /\ calls[i + 1].index = calls[i].index
                        /\ calls[i + 1].request_bytes = calls[i].request_bytes
                   ELSE /\ pc = "queries"
                        /\ sent + 1 = calls[i].index
                        /\ connection_attempt = calls[i].attempt + 1
                        /\ raised = NoException
           /\ (calls[i].outcome = "socket.timeout" /\ calls[i].attempt = timeout_retries + 1)
                => /\ i = Len(calls)
                   /\ pc = "raised"
                   /\ raised.err = "socket.timeout"

\* C7 witness: with two retries, the third attempt of a unit timed out and
\* the timeout reached the caller
C7_Witness ==
    /\ timeout_retries = 2
    /\ pc = "raised"
    /\ raised.err = "socket.timeout"
    /\ calls # <<>>
    /\ calls[Len(calls)].loop = "queries"
    /\ calls[Len(calls)].attempt = 3

\* C8: a transport error other than a timeout, raised while sending a setop
\* unit or a query unit, reaches the caller at once: that call is the last
\* one made, so the unit is not retried and no later unit is sent.
C8_ErrorPropagates ==
    \A i \in DOMAIN calls :
        calls[i].outcome = "ConnectionError"
        => /\ i = Len(calls)
           /\ pc = "raised"
           /\ raised.err = "ConnectionError"

\* C8 witness: a query unit failed on an attempt that had retries left, with a
\* later unit still unsent
C8_Witness ==
    /\ pc = "raised"
    /\ calls # <<>>
    /\ calls[Len(calls)].outcome = "ConnectionError"
    /\ calls[Len(calls)].loop = "queries"
    /\ calls[Len(calls)].attempt <= timeout_retries
    /\ calls[Len(calls)].index < Len(queries)

\* the query calls before call i that returned
QueryAnswersBefore(i) ==
    LET Answered(call) == call.loop = "queries" /\ call.outcome = "returned"
    IN SelectSeq(SubSeq(calls, 1, i - 1), Answered)

CallsOf(loop) ==
    LET InLoop(call) == call.loop = loop
    IN SelectSeq(calls, InLoop)

\* the replies of the query calls that returned, in order
QueryAnswers ==
    LET Answered(call) == call.loop = "queries" /\ call.outcome = "returned"
        answered == SelectSeq(calls, Answered)
    IN [i \in DOMAIN answered |-> answered[i].reply]

\* C9: every setop unit is handed to the transport before any query unit; the
\* query units are sent one at a time in request order; a reply to a setop
\* unit (read only when return_response is set) is never added to the
\* response.
C9_SetopsBeforeQueries ==
    /\ \A i, j \in DOMAIN calls :
          (i < j /\ calls[i].loop = "queries") => calls[j].loop = "queries"
    /\ \A i \in DOMAIN calls :
          /\ calls[i].loop = "setops"
                => /\ calls[i].request_bytes = setops[calls[i].index]
                   /\ calls[i].expect_response = return_response
                   /\ calls[i].index = i
          /\ calls[i].loop = "queries"
                => /\ calls[i].request_bytes = queries[calls[i].index]
                   /\ calls[i].index = Len(QueryAnswersBefore(i)) + 1
    /\ CallsOf("queries") # <<>> => Len(CallsOf("setops")) = Len(setops)
    /\ responses = QueryAnswers

\* C9 witness: two acknowledged setop units, then two answered query units
C9_Witness ==
    /\ return_response
    /\ pc = "unmarshall"
    /\ Len(setops) = 2
    /\ Len(queries) = 2
    /\ Len(responses) = 2
    /\ \E i \in DOMAIN calls : calls[i].loop = "setops" /\ calls[i].reply # None

----------------------------------------------------------------------------
(* The specification that applies ScpiClient._unmarshall_response, and then *)
(* AttributeClient._unmarshall_response, to generated replies.              *)

ReplyAlphabet == {"1", ";", "\"", " "}

GeneratedReplies(n) == {PyBytes(t) : t \in SeqsUpTo(ReplyAlphabet, n)}

\* the replies collected by send_receive: one generated or test reply, or two
\* short ones
ResponseLists ==
    {<<>>}
    \cup {<<r>> : r \in GeneratedReplies(MaxReplyLen) \cup QueryReplies}
    \cup {<<r1, r2>> : r1, r2 \in GeneratedReplies(1)}

Fields == {NAME, JUIC, PEEL, FLAGS}

\* the queried fields: ScpiRequest.queries has no repetition
FieldLists == {f \in SeqsUpTo(Fields, MaxFields) : Dedup(f) = f}

InitUnmarshall ==
    /\ InitIdle
    /\ attribute_request = AttributeRequest
    /\ \E f \in FieldLists, r \in ResponseLists :
          /\ scpi_request = [queries |-> f, setops |-> <<>>]
          /\ responses = r
    /\ pc = "unmarshall"

NextUnmarshall == Unmarshall \/ AttributeUnmarshall

SpecUnmarshall == InitUnmarshall /\ [][NextUnmarshall]_vars

\* b"1;2"
C10_Example == <<PyBytes(<<"1", ";", "2">>)>>

\* C10: whenever the number of tokens decoded from the received units differs
\* from the number of queried fields, _unmarshall_response fails with a
\* mismatch error naming both counts and both lists, and returns no
\* ScpiResponse; '1;2' for three fields reports 2 values against 3 fields.
C10_MismatchRaises ==
    pc # "unmarshall"
    => /\ Len(ScpiClient_values(responses)) # Len(scpi_request.queries)
            => /\ pc = "raised"
               /\ raised.err = "ValueError"
               /\ raised.message = <<Len(ScpiClient_values(responses)),
                                     ScpiClient_values(responses),
                                     Len(scpi_request.queries),
                                     scpi_request.queries>>
               /\ scpi_response = ScpiResponse
       /\ (responses = C10_Example /\ Len(scpi_request.queries) = 3)
            => /\ pc = "raised"
               /\ raised.message = <<2, << <<"1">>, <<"2">> >>, 3, scpi_request.queries>>

\* C10 witness: '1;2' was received for three fields and the call has failed
C10_Witness ==
    /\ pc = "raised"
    /\ responses = C10_Example
    /\ Len(scpi_request.queries) = 3
    /\ raised.err = "ValueError"

----------------------------------------------------------------------------
(* bytes_client.py: _JimmiedSentinelBytesMarshaller.unmarshall.  The call   *)
(* takes chunks from an iterator one at a time; between two chunks it waits *)
(* for the transport.                                                       *)

\* self._sentinel
sentinel == <<"\n">>

\* payload.endswith(suffix)
EndsWith(text, suffix) ==
    /\ Len(suffix) <= Len(text)
    /\ SubSeq(text, Len(text) - Len(suffix) + 1, Len(text)) = suffix

\* payload[from:to], Python slice with 0 <= from <= to
Slice(text, from, to) ==
    SubSeq(text, from + 1, IF to < Len(text) THEN to ELSE Len(text))

\* re.match(rb"^#\d\d+", payload)
Framer_is_block(first) ==
    /\ Len(first) >= 3
    /\ first[1] = "#"
    /\ IsDigit(first[2])
    /\ IsDigit(first[3])

\* len_head = 2 + int(payload[1:2])
Framer_len_head(first) == 2 + DigitVal(first[2])

\* len_data = int(payload[2:len_head])
Framer_len_data(first) == StrToInt(Slice(first, 2, Framer_len_head(first)))

\* len_expected = len_head + len_data + len(self._sentinel)
Framer_len_expected(head, data) == head + data + Len(sentinel)

\* a variant of the block loop's condition that stops at the first sentinel
Framer_block_incomplete_either(buffer, head, data) ==
    ~EndsWith(buffer, sentinel)

\* while len(payload) < len_expected or not payload.endswith(self._sentinel)
Framer_block_incomplete(buffer, head, data) ==
    \/ Len(buffer) < Framer_len_expected(head, data)
    \/ ~EndsWith(buffer, sentinel)

\* a variant of the length check that accepts a longer payload
Framer_overrun_never(buffer, head, data) == FALSE

\* if len(payload) > len_expected
Framer_overrun(buffer, head, data) == Len(buffer) > Framer_len_expected(head, data)

\* a variant that leaves the suffix in place
RemoveSuffix_kept(text, suffix) == text

\* payload.removesuffix(self._sentinel)
RemoveSuffix(text, suffix) ==
    IF suffix # <<>> /\ EndsWith(text, suffix)
    THEN SubSeq(text, 1, Len(text) - Len(suffix))
    ELSE text

\* unmarshall, from the loop test on, with the buffer as it is now: the call
\* waits for the next chunk, raises, or returns
Framer_continue(mode, buffer, head, data) ==
    /\ payload' = buffer
    /\ IF mode = "block"
       THEN IF Framer_block_incomplete(buffer, head, data)
            THEN pc' = "block" /\ UNCHANGED <<unit, raised>>
            ELSE IF Framer_overrun(buffer, head, data)
            THEN /\ pc' = "raised"
                 /\ raised' = [err |-> "ValueError",
                               message |-> <<Len(buffer) - head - Len(sentinel), data>>]
                 /\ unit' = unit
            ELSE /\ pc' = "returned"
                 /\ unit' = PyBytes(RemoveSuffix(buffer, sentinel))
                 /\ raised' = raised
       ELSE IF ~EndsWith(buffer, sentinel)
            THEN pc' = "plain" /\ UNCHANGED <<unit, raised>>
            ELSE /\ pc' = "returned"
                 /\ unit' = PyBytes(RemoveSuffix(buffer, sentinel))
                 /\ raised' = raised

\* the bytes a chunk is made of
ChunkAlphabet == {"#", "1", "2", "\n"}

\* a chunk of 1 to n bytes
Chunks(n) == SeqsUpTo(ChunkAlphabet, n) \ {<<>>}

\* the variables of a call that unmarshall leaves alone
framer_rest == <<attribute_map, chain, return_response, timeout_retries,
                 attribute_request, scpi_request, setops, queries, sent,
                 connection_attempt, responses, calls, scpi_response,
                 attribute_response, attribute_values>>

InitFramer ==
    /\ InitFramerIdle
    /\ InitCompareIdle
    /\ attribute_map = FruitAttributes
    /\ chain = TRUE
    /\ return_response = FALSE
    /\ timeout_retries = 0
    /\ attribute_request = AttributeRequest
    /\ scpi_request = ScpiRequest
    /\ setops = <<>>
    /\ queries = <<>>
    /\ sent = 0
    /\ connection_attempt = 0
    /\ responses = <<>>
    /\ calls = <<>>
    /\ scpi_response = ScpiResponse
    /\ attribute_response = AttributeResponse
    /\ raised = NoException
    /\ attribute_values = <<>>
    /\ pc = "unmarshall_start"

\* payload = next(bytes_iterator), the header test, and the loop test
FramerFirstChunk ==
    /\ pc = "unmarshall_start"
    /\ \E chunk \in Chunks(MaxFirstChunk) :
          /\ chunks' = <<chunk>>
          /\ IF Framer_is_block(chunk)
             THEN IF Framer_len_data(chunk).ok
                  THEN /\ len_head' = Framer_len_head(chunk)
                       /\ len_data' = Framer_len_data(chunk).val
                       /\ Framer_continue("block", chunk, Framer_len_head(chunk),
                                          Framer_len_data(chunk).val)
                  ELSE /\ len_head' = Framer_len_head(chunk)
                       /\ len_data' = len_data
                       /\ payload' = chunk
                       /\ unit' = unit
                       /\ raised' = Exception(Framer_len_data(chunk))
                       /\ pc' = "raised"
             ELSE /\ UNCHANGED <<len_head, len_data>>
                  /\ Framer_continue("plain", chunk, 0, 0)
    /\ UNCHANGED <<framer_rest, compare_vars>>

\* payload = payload + next(bytes_iterator), and the loop test
FramerNextChunk ==
    /\ pc \in {"block", "plain"}
    /\ \E chunk \in Chunks(MaxChunk) :
          /\ Len(payload) + Len(chunk) <= MaxBufferLen
          /\ chunks' = Append(chunks, chunk)
          /\ Framer_continue(pc, payload \o chunk, len_head, len_data)
    /\ UNCHANGED <<len_head, len_data, framer_rest, compare_vars>>

\* next(bytes_iterator) when the iterator has no more chunks
FramerExhausted ==
    /\ pc \in {"unmarshall_start", "block", "plain"}
    /\ raised' = [err |-> "StopIteration", message |-> <<>>]
    /\ pc' = "raised"
    /\ UNCHANGED <<framer_vars, framer_rest, compare_vars>>

NextFramer ==
    \/ FramerFirstChunk
    \/ FramerNextChunk
    \/ FramerExhausted

SpecFramer == InitFramer /\ [][NextFramer]_vars

----------------------------------------------------------------------------
(* Claims about the byte framer (SpecFramer). *)

RECURSIVE Flatten(_)
\* the bytes of a list of chunks, in order
Flatten(list) == IF list = <<>> THEN <<>> ELSE list[1] \o Flatten(Tail(list))

\* the chunk starts with a complete block header: #, a digit d >= 1, d digits
StartsWithHeader(first) ==
    /\ Len(first) >= 2
    /\ first[1] = "#"
    /\ IsDigit(first[2])
    /\ DigitVal(first[2]) >= 1
    /\ Len(first) >= 2 + DigitVal(first[2])
    /\ AllDigits(SubSeq(first, 3, 2 + DigitVal(first[2])))

\* the length of the header of such a chunk
HeaderLength(first) == 2 + DigitVal(first[2])

\* the payload length L the header of such a chunk gives
DeclaredLength(first) == DigitsToInt(SubSeq(first, 3, 2 + DigitVal(first[2])))

\* a unit is being read whose first chunk starts with a complete block header
BlockUnit == chunks # <<>> /\ StartsWithHeader(chunks[1])

\* C11: when the first chunk of a unit starts with an arbitrary-block header
\* (# d, then d digits giving the payload length L), unmarshall returns only
\* when the buffer has reached header length + L + sentinel length and ends
\* with the sentinel; before that length no sentinel ends the unit, and the
\* returned unit is exactly the header and L payload bytes of the buffer.
C11_BlockUnitComplete ==
    BlockUnit =>
        LET expected == HeaderLength(chunks[1]) + DeclaredLength(chunks[1])
        IN /\ payload = Flatten(chunks)
           /\ Len(payload) < expected + Len(sentinel) => pc # "returned"
           /\ pc = "returned" =>
                /\ Len(payload) >= expected + Len(sentinel)
                /\ EndsWith(payload, sentinel)
                /\ unit = PyBytes(SubSeq(payload, 1, expected))
                /\ Len(unit.bytes) = expected

\* C11 witness: a block unit was returned although, some chunks earlier, the
\* buffer already ended with the sentinel
C11_Witness ==
    /\ BlockUnit
    /\ pc = "returned"
    /\ \E k \in 1..(Len(chunks) - 1) :
          EndsWith(Flatten(SubSeq(chunks, 1, k)), sentinel)
    /\ \E i \in (len_head + 1)..(len_head + len_data) : payload[i] \in Range(sentinel)

\* the call is in block mode and its buffer is longer than the header states
Overrun ==
    /\ BlockUnit
    /\ Len(payload) > HeaderLength(chunks[1]) + DeclaredLength(chunks[1]) + Len(sentinel)

\* the framing error, with the observed and the declared payload size
FramingError ==
    /\ pc = "raised"
    /\ raised.err = "ValueError"
    /\ raised.message = <<Len(payload) - HeaderLength(chunks[1]) - Len(sentinel),
                          DeclaredLength(chunks[1])>>

\* C12 as stated: in block mode, as soon as the accumulated buffer is longer
\* than header length + declared payload length + sentinel length, unmarshall
\* has failed with a framing error reporting the observed and the declared
\* payload size.
C12_OverrunFailsAtOnce == Overrun => FramingError

\* C12: in block mode a buffer longer than header length + declared payload
\* length + sentinel length never yields a unit; when such a buffer ends with
\* the sentinel unmarshall fails with a framing error reporting the observed
\* and the declared payload size, and otherwise it goes on reading.
C12_OverrunFailsAtSentinel ==
    Overrun =>
        /\ pc # "returned"
        /\ unit = None
        /\ EndsWith(payload, sentinel) => FramingError
        /\ ~EndsWith(payload, sentinel) =>
              \/ pc = "block"
              \/ pc = "raised" /\ raised.err = "StopIteration"

\* C12 witness: an over-long block buffer has been rejected
C12_Witness == Overrun /\ FramingError

----------------------------------------------------------------------------
(* The server stack: ScpiBytesServer.receive_send over ScpiServer, with the  *)
(* attribute server of the server-stack test or the simulator below it.     *)

ROTT == <<"R", "O", "T", "T">>

PROCESS == <<"P", "R", "O", "C", "E", "S", "S">>

BOIL == <<"B", "O", "I", "L">>

FRY == <<"F", "R", "Y">>

DRY == <<"D", "R", "Y">>

FERMENT == <<"F", "E", "R", "M", "E", "N", "T">>

\* a field that no attribute is bound to
BOGUS == <<"B", "O", "G", "U", "S">>

\* the attribute definitions of the server-stack test, in the form in which
\* ScpiServer reads them
ServerAttributes ==
    << [k |-> "name", v |-> <<Binding("read", NAME, "str", -1)>>],
       [k |-> "juiciness", v |-> ReadWrite(JUIC, "float", -1)],
       [k |-> "rotten", v |-> ReadWrite(ROTT, "int", -1)],
       [k |-> "peeled", v |-> ReadWrite(PEEL, "bool", -1)],
       [k |-> "overripe", v |-> ReadWrite(FLAGS, "bit", 0)],
       [k |-> "under-ripe", v |-> ReadWrite(FLAGS, "bit", 1)],
       [k |-> "chilled", v |-> ReadWrite(FLAGS, "bit", 7)],
       [k |-> "boiled", v |-> <<Binding("read", PROCESS, "packet_item", 0),
                                Binding("write", BOIL, "float", -1)>>],
       [k |-> "fried", v |-> <<Binding("read", PROCESS, "packet_item", 1),
                               Binding("write", FRY, "float", -1)>>],
       [k |-> "dried", v |-> <<Binding("read", PROCESS, "packet_item", 2),
                               Binding("write", DRY, "float", -1)>>],
       [k |-> "fermented", v |-> <<Binding("read", PROCESS, "packet_item", 3),
                                   Binding("write", FERMENT, "float", -1)>>] >>

\* the attribute response of the mock attribute server of the test
MockAttributeResponse ==
    << [k |-> "name", v |-> PyStr(<<"o", "r", "a", "n", "g", "e">>)],
       [k |-> "juiciness", v |-> PyFloat(987)],
       [k |-> "rotten", v |-> PyInt(30)],
       [k |-> "peeled", v |-> PyBool(TRUE)],
       [k |-> "overripe", v |-> PyBool(FALSE)],
       [k |-> "under-ripe", v |-> PyBool(TRUE)],
       [k |-> "chilled", v |-> PyBool(TRUE)],
       [k |-> "boiled", v |-> PyFloat(1)],
       [k |-> "fried", v |-> PyFloat(2)],
       [k |-> "dried", v |-> PyFloat(3)],
       [k |-> "fermented", v |-> PyFloat(4)] >>

\* request_bytes of the test
ServerRequestBytes == PyBytes(<<"N", "A", "M", "E", "?", ";", "J", "U", "I", "C", "?", ";", "R", "O", "T", "T", "?", ";", "P", "E", "E", "L", "?", ";", "F", "L", "A", "G", "S", "?", ";", "P", "R", "O", "C", "E", "S", "S", "?">>)

\* expected_response_bytes of the test
ServerExpectedBytes == PyBytes(<<"o", "r", "a", "n", "g", "e", ";", "9", "8", ".", "7", ";", "3", "0", ";", "1", ";", "1", "3", "0", ";", "0", ".", "1", " ", "0", ".", "2", " ", "0", ".", "3", " ", "0", ".", "4">>)

\* the commands a generated request is made of: queries of known fields, of
\* an unknown field and of a write-only field, and setops of known fields,
\* of an unknown field and of a read-only field, with and without argument
ServerCommands ==
    { NAME \o <<"?">>, JUIC \o <<"?">>, FLAGS \o <<"?">>, PROCESS \o <<"?">>,
      BOGUS \o <<"?">>, BOIL \o <<"?">>,
      JUIC \o <<" ", "1", ".", "5">>, JUIC, FLAGS \o <<" ", "1", "2", "9">>, PEEL \o <<" ", "1">>,
      BOGUS \o <<" ", "1">>, NAME \o <<" ", "1">> }

\* the request bytes a client may send: a few commands joined by ";", or the
\* request of the test
ServerRequests ==
    {PyBytes(Join(commands, <<";">>)) : commands \in SeqsUpTo(ServerCommands, MaxCommands)}
        \cup {ServerRequestBytes}

server_rest == <<chain, return_response, timeout_retries, setops, queries, sent,
                 connection_attempt, responses, chunks, len_head, len_data,
                 compare_vars>>

\* the server stack is constructed and request bytes have arrived; the
\* simulator holds the values that the mock of the test answers with
InitServer ==
    /\ InitCompareIdle
    /\ attribute_map = ServerAttributes
    /\ chain = FALSE
    /\ return_response = FALSE
    /\ timeout_retries = 0
    /\ attribute_request = AttributeRequest
    /\ scpi_request = ScpiRequest
    /\ setops = <<>>
    /\ queries = <<>>
    /\ sent = 0
    /\ connection_attempt = 0
    /\ responses = <<>>
    /\ calls = <<>>
    /\ scpi_response = ScpiResponse
    /\ attribute_response = AttributeResponse
    /\ raised = NoException
    /\ attribute_values = ScpiSimulator_init(<<>>, MockAttributeResponse)
    /\ payload \in {request.bytes : request \in ServerRequests}
    /\ chunks = <<>>
    /\ len_head = 0
    /\ len_data = 0
    /\ unit = None
    /\ pc = "receive"

\* ScpiBytesServer.receive_send: scpi_request = self._unmarshall_request(...)
BytesUnmarshall ==
    /\ pc = "receive"
    /\ scpi_request' = ScpiBytesServer_unmarshall_request(PyBytes(payload), argument_separator)
    /\ pc' = "scpi_request"
    /\ UNCHANGED <<attribute_map, attribute_request, calls, scpi_response,
                   attribute_response, raised, attribute_values, payload, unit,
                   server_rest>>

\* ScpiServer.receive_send, with the outcome of _unmarshall_request
ServerUnmarshalled(unmarshalled) ==
    IF unmarshalled.ok
    THEN /\ attribute_request' = unmarshalled.val
         /\ pc' = "attribute_request"
         /\ UNCHANGED raised
    ELSE /\ raised' = Exception(unmarshalled)
         /\ pc' = "raised"
         /\ UNCHANGED attribute_request

\* ScpiServer.receive_send: attribute_request = self._unmarshall_request(...)
ServerUnmarshall ==
    /\ pc = "scpi_request"
    /\ ServerUnmarshalled(
          ScpiServer_unmarshall_request(ScpiServer_field_map(attribute_map), scpi_request))
    /\ UNCHANGED <<attribute_map, scpi_request, calls, scpi_response,
                   attribute_response, attribute_values, payload, unit, server_rest>>

\* ScpiServer.receive_send, with the outcome of the attribute server: a
\* ValueError is logged and None is returned, any other error propagates
ServerHandled(served) ==
    /\ attribute_values' = served.attribute_values
    /\ IF served.result.ok
       THEN /\ attribute_response' = served.result.val
            /\ pc' = "attribute_response"
            /\ UNCHANGED <<scpi_response, raised>>
       ELSE IF served.result.err = "ValueError"
       THEN /\ scpi_response' = None
            /\ pc' = "scpi_response"
            /\ UNCHANGED <<attribute_response, raised>>
       ELSE /\ raised' = Exception(served.result)
            /\ pc' = "raised"
            /\ UNCHANGED <<attribute_response, scpi_response>>

\* ScpiServer.receive_send: the attribute server is the simulator
SimulatorHandles ==
    /\ pc = "attribute_request"
    /\ ServerHandled(ScpiSimulator_receive_send(attribute_values, attribute_request))
    /\ UNCHANGED <<attribute_map, attribute_request, scpi_request, calls, payload,
                   unit, server_rest>>

\* ScpiServer.receive_send: the attribute server is the mock of the test,
\* which records the call and returns its one response
MockHandles ==
    /\ pc = "attribute_request"
    /\ calls' = Append(calls, attribute_request)
    /\ ServerHandled(Served(Ok(MockAttributeResponse), attribute_values))
    /\ UNCHANGED <<attribute_map, attribute_request, scpi_request, payload, unit,
                   server_rest>>

\* ScpiServer.receive_send, with the outcome of _marshall_response
ServerMarshalled(marshalled) ==
    IF marshalled.ok
    THEN /\ scpi_response' = marshalled.val
         /\ pc' = "scpi_response"
         /\ UNCHANGED raised
    ELSE /\ raised' = Exception(marshalled)
         /\ pc' = "raised"
         /\ UNCHANGED scpi_response

\* ScpiServer.receive_send: scpi_response = self._marshall_response(...)
ServerMarshall ==
    /\ pc = "attribute_response"
    /\ ServerMarshalled(ScpiServer_returned(
          ScpiServer_marshall_response(attribute_map, attribute_response)))
    /\ UNCHANGED <<attribute_map, attribute_request, scpi_request, calls,
                   attribute_response, attribute_values, payload, unit, server_rest>>

\* ScpiBytesServer.receive_send, with the outcome of _marshall_response
BytesMarshalled(marshalled) ==
    IF marshalled.ok
    THEN /\ unit' = marshalled.val
         /\ pc' = "returned"
         /\ UNCHANGED raised
    ELSE /\ raised' = Exception(marshalled)
         /\ pc' = "raised"
         /\ UNCHANGED unit

\* ScpiBytesServer.receive_send: response_bytes = self._marshall_response(...)
BytesMarshall ==
    /\ pc = "scpi_response"
    /\ BytesMarshalled(ScpiBytesServer_marshall_response(scpi_response))
    /\ UNCHANGED <<attribute_map, attribute_request, scpi_request, calls,
                   scpi_response, attribute_response, attribute_values, payload,
                   server_rest>>

NextServer ==
    \/ BytesUnmarshall
    \/ ServerUnmarshall
    \/ SimulatorHandles
    \/ MockHandles
    \/ ServerMarshall
    \/ BytesMarshall

SpecServer == InitServer /\ [][NextServer]_vars

----------------------------------------------------------------------------
(* Claims about the server stack (SpecServer). *)

\* the SCPI request without the queries and setops of fields that the
\* server's field map has no entry for
KnownPart(field_map, request) ==
    [queries |-> SelectSeq(request.queries, LAMBDA field : Has(field_map, field)),
     setops |-> SelectSeq(request.setops, LAMBDA setop : Has(field_map, setop.field))]

\* the request names a field that the server's field map has no entry for
NamesUnknownField(field_map, request) == KnownPart(field_map, request) # request

\* _unmarshall_request has given the outcome that is expected
UnmarshalledAs(expected) ==
    IF expected.ok
    THEN attribute_request = expected.val /\ raised.err # "KeyError"
    ELSE pc = "raised" /\ raised = Exception(expected)

\* C13: the outcome of ScpiServer._unmarshall_request is that of the same
\* request without its queries and setops of unknown fields: these are
\* skipped, every other query and setop is translated in its original order,
\* and no unknown field aborts the request.
C13_UnknownFieldsSkipped ==
    pc \notin {"receive", "scpi_request"} =>
        UnmarshalledAs(ScpiServer_unmarshall_request(
            ScpiServer_field_map(attribute_map),
            KnownPart(ScpiServer_field_map(attribute_map), scpi_request)))

\* C13 witness: a request with an unknown field before a known one has been
\* translated to the known one, for queries and for setops
C13_Witness ==
    /\ pc = "attribute_request"
    /\ \/ /\ scpi_request.queries = <<BOGUS, NAME>>
          /\ attribute_request.queries = <<"name">>
       \/ /\ Len(scpi_request.setops) = 2
          /\ scpi_request.setops[1].field = BOGUS
          /\ scpi_request.setops[2].field = JUIC
          /\ attribute_request.setops = <<Setop("juiciness", <<PyFloat(15)>>)>>

\* the request of the server-stack test has been handled by the mock
\* attribute server of the test
ServerScenario == payload = ServerRequestBytes.bytes /\ calls # <<>>

\* C14: in the server-stack test, the four attributes bound to packet items
\* 0..3 of PROCESS are marshalled to the one field value "0.1 0.2 0.3 0.4",
\* and the stack answers the request with
\* "orange;98.7;30;1;130;0.1 0.2 0.3 0.4".
C14_PacketItemsConcatenated ==
    ServerScenario =>
        /\ pc # "raised"
        /\ pc \in {"scpi_response", "returned"} =>
              /\ Has(scpi_response.responses, PROCESS)
              /\ Get(scpi_response.responses, PROCESS) = PyStr(<<"0", ".", "1", " ", "0", ".", "2", " ", "0", ".", "3", " ", "0", ".", "4">>)
        /\ pc = "returned" => unit = ServerExpectedBytes

\* C20: when ScpiServer.receive_send has returned to its caller, what it
\* returned is a ScpiResponse: whenever the attribute server raised, the
\* call raised too and returned nothing.
C20_ReturnsResponseOrRaises ==
    pc = "scpi_response" => ~IsA(scpi_response, "none")

----------------------------------------------------------------------------
(* The round trip of a request: AttributeClient._marshall_request, then     *)
(* ScpiServer._unmarshall_request with the same definitions.                *)

RST == <<"*", "R", "S", "T">>

\* the client-stack definitions and a command: an attribute whose write
\* binding has no field type
CommandAttributes ==
    FruitAttributes \o << [k |-> "reset", v |-> <<Binding("write", RST, "None", -1)>>] >>

\* setops on the command, with no, one and two arguments, and a typed setop
CommandSetops ==
    {Setop("reset", <<>>), Setop("reset", <<PyInt(5)>>),
     Setop("reset", <<PyStr(<<"a">>), PyFloat(15)>>),
     Setop("peeled", <<PyBool(TRUE)>>)}

\* requests for the given definitions: a few queries, or a few setops when
\* the definitions have the command
RoundTripRequests(definitions) ==
    {[queries |-> q, setops |-> <<>>] :
        q \in {q \in SeqsUpTo(Range(Keys(definitions)), MaxQueries) : Dedup(q) = q}}
    \cup {[queries |-> <<>>, setops |-> s] :
            s \in IF Has(definitions, "reset") THEN SeqsUpTo(CommandSetops, MaxSetops)
                  ELSE {}}

InitRoundTrip ==
    /\ InitFramerIdle
    /\ InitCompareIdle
    /\ attribute_map \in {ServerAttributes, CommandAttributes}
    /\ attribute_request \in RoundTripRequests(attribute_map)
    /\ chain = TRUE
    /\ return_response = FALSE
    /\ timeout_retries = 0
    /\ scpi_request = ScpiRequest
    /\ setops = <<>>
    /\ queries = <<>>
    /\ sent = 0
    /\ connection_attempt = 0
    /\ responses = <<>>
    /\ calls = <<>>
    /\ scpi_response = ScpiResponse
    /\ attribute_response = AttributeResponse
    /\ raised = NoException
    /\ attribute_values = <<>>
    /\ pc = "start"

\* the server's side of the round trip, with the outcome of
\* _unmarshall_request
RoundTripped(unmarshalled) ==
    IF unmarshalled.ok
    THEN /\ other' = unmarshalled.val
         /\ pc' = "round_trip"
         /\ UNCHANGED raised
    ELSE /\ raised' = Exception(unmarshalled)
         /\ pc' = "raised"
         /\ UNCHANGED other

\* ScpiServer._unmarshall_request of what the client marshalled
RoundTrip ==
    /\ pc = "marshalled"
    /\ RoundTripped(
          ScpiServer_unmarshall_request(ScpiServer_field_map(attribute_map), scpi_request))
    /\ UNCHANGED <<attribute_map, chain, return_response, timeout_retries,
                   attribute_request, scpi_request, setops, queries, sent,
                   connection_attempt, responses, calls, scpi_response,
                   attribute_response, attribute_values, framer_vars, comparison>>

NextRoundTrip ==
    \/ Marshall
    \/ RoundTrip

SpecRoundTrip == InitRoundTrip /\ [][NextRoundTrip]_vars

\* the fields that the queried attributes are read from
QueriedFields(definitions, attributes) ==
    {MethodOf(Get(definitions, a), "read").field : a \in Range(attributes)}

\* every attribute that is read from a queried field is itself queried
NoFieldShared(definitions, attributes) ==
    \A a \in Range(Keys(definitions)) :
        /\ HasMethod(Get(definitions, a), "read")
        /\ MethodOf(Get(definitions, a), "read").field \in QueriedFields(definitions, attributes)
        => a \in Range(attributes)

\* C15: when a queries-only AttributeRequest has been marshalled by the
\* client and unmarshalled by the server with the same definitions, the
\* queries that come back are a superset of the original queries, and the
\* same set when the queried fields are shared with no other attribute.
C15_QueryRoundTrip ==
    pc = "round_trip" /\ attribute_request.setops = <<>> =>
        /\ Range(attribute_request.queries) \subseteq Range(other.queries)
        /\ NoFieldShared(attribute_map, attribute_request.queries) =>
              Range(attribute_request.queries) = Range(other.queries)

\* the arguments of a setop as text, in order
ArgumentsAsText(args) == [i \in DOMAIN args |-> ToStr(args[i])]

\* C17: when a request whose setops are all on an attribute with an untyped
\* write binding has been marshalled, the SCPI request has one setop per
\* setop of the request, on the bound field, with all the arguments of that
\* setop as text, in order; a setop without arguments gives the bare command.
C17_UntypedCommandKeepsArguments ==
    /\ pc = "marshalled"
    /\ \A i \in DOMAIN attribute_request.setops :
          attribute_request.setops[i].attribute = "reset"
    => /\ Len(scpi_request.setops) = Len(attribute_request.setops)
       /\ \A i \in DOMAIN attribute_request.setops :
             /\ scpi_request.setops[i].field = RST
             /\ scpi_request.setops[i].args =
                   ArgumentsAsText(attribute_request.setops[i].args)

----------------------------------------------------------------------------
(* attribute_payload.py: the comparisons of AttributeRequest. *)

\* Counter(setops).items(): each distinct setop with the number of times it
\* occurs
CounterItems(pending) ==
    {<<pending[i], Cardinality({j \in DOMAIN pending : pending[j] = pending[i]})>> :
        i \in DOMAIN pending}

\* AttributeRequest.__eq__
AttributeRequest_eq(this, that) ==
    IF CounterItems(this.setops) # CounterItems(that.setops) THEN FALSE
    ELSE Range(this.queries) = Range(that.queries)

\* AttributeRequest.__ge__: >= on the items views is the superset test
AttributeRequest_ge(this, that) ==
    IF ~(CounterItems(that.setops) \subseteq CounterItems(this.setops)) THEN FALSE
    ELSE Range(that.queries) \subseteq Range(this.queries)

\* the requests that are compared: a few setops and a few queries
CompareRequests ==
    {[queries |-> q, setops |-> s] :
        q \in {q \in SeqsUpTo({"name", "juiciness"}, MaxCompareQueries) : Dedup(q) = q},
        s \in SeqsUpTo(PlainSetops, MaxCompareSetops)}

compare_rest == <<attribute_map, chain, return_response, timeout_retries,
                  attribute_request, scpi_request, setops, queries, sent,
                  connection_attempt, responses, calls, scpi_response,
                  attribute_response, raised, attribute_values, framer_vars, other>>

\* two requests have been constructed
InitCompare ==
    /\ InitFramerIdle
    /\ attribute_map = FruitAttributes
    /\ chain = TRUE
    /\ return_response = FALSE
    /\ timeout_retries = 0
    /\ setops = <<>>
    /\ queries = <<>>
    /\ sent = 0
    /\ connection_attempt = 0
    /\ calls = <<>>
    /\ scpi_response = ScpiResponse
    /\ attribute_response = AttributeResponse
    /\ raised = NoException
    /\ attribute_values = <<>>
    /\ attribute_request \in CompareRequests
    /\ other \in CompareRequests
    /\ comparison = None
    /\ scpi_request = ScpiRequest
    /\ responses = <<>>
    /\ pc = "start"

\* attribute_request == other
CompareEq ==
    /\ pc = "start"
    /\ comparison' = [op |-> "==", result |-> AttributeRequest_eq(attribute_request, other)]
    /\ pc' = "compared"
    /\ UNCHANGED compare_rest

\* attribute_request >= other
CompareGe ==
    /\ pc = "start"
    /\ comparison' = [op |-> ">=", result |-> AttributeRequest_ge(attribute_request, other)]
    /\ pc' = "compared"
    /\ UNCHANGED compare_rest

NextCompare ==
    \/ CompareEq
    \/ CompareGe

SpecCompare == InitCompare /\ [][NextCompare]_vars

\* how often a setop occurs in a list of setops
Occurrences(pending, setop) == Cardinality({i \in DOMAIN pending : pending[i] = setop})

\* the multiset of the first list holds every setop at least as often as the
\* multiset of the second
MultisetSuperset(first, second) ==
    \A setop \in Range(second) : Occurrences(first, setop) >= Occurrences(second, setop)

\* C18: A == B is true exactly when the setop multisets of A and B are equal
\* and their query sets are equal, and A >= B is true exactly when the setop
\* multiset of A is a multiset-superset of that of B and the query set of A
\* is a superset of that of B.
C18_ComparisonIsMultiset ==
    pc = "compared" =>
        /\ comparison.op = "==" =>
              comparison.result =
                 (/\ MultisetSuperset(attribute_request.setops, other.setops)
                  /\ MultisetSuperset(other.setops, attribute_request.setops)
                  /\ Range(attribute_request.queries) = Range(other.queries))
        /\ comparison.op = ">=" =>
              comparison.result =
                 (/\ MultisetSuperset(attribute_request.setops, other.setops)
                  /\ Range(other.queries) \subseteq Range(attribute_request.queries))

----------------------------------------------------------------------------
(* Claims about ScpiClient._marshall_request (Spec). *)

\* the text of one setop: the field and its arguments, separated by a space
SetopText(setop) == Join(<<setop.field>> \o setop.args, <<" ">>)

\* the text of one query: the field and a question mark
QueryText(field) == field \o <<"?">>

\* the units are what chaining makes of the texts: with chaining one unit,
\* the texts joined by ";" in order, if there is any text at all; without
\* chaining one unit per text, in order
UnitsOf(units, texts, chained) ==
    IF texts = <<>> THEN units = <<>>
    ELSE IF chained
    THEN Len(units) = 1 /\ units[1] = PyBytes(Join(texts, <<";">>))
    ELSE /\ Len(units) = Len(texts)
         /\ \A i \in DOMAIN texts : units[i] = PyBytes(texts[i])

\* C19: once ScpiClient._marshall_request has produced the units, with
\* chaining there is exactly one setop unit (all setops joined by ";" in
\* order) and exactly one query unit (all queries joined by ";" in order),
\* without chaining one unit per setop and one per query, and a request
\* with no setops (no queries) gives no setop unit (no query unit).
C19_ChainedUnits ==
    pc \notin {"start", "marshalled"} =>
        /\ UnitsOf(setops,
                   [i \in DOMAIN scpi_request.setops |-> SetopText(scpi_request.setops[i])],
                   chain)
        /\ UnitsOf(queries,
                   [i \in DOMAIN scpi_request.queries |-> QueryText(scpi_request.queries[i])],
                   chain)

\* C19 witness: a request with several setops and several queries has been
\* marshalled with chaining to one setop unit and one query unit
C19_Witness ==
    /\ pc \notin {"start", "marshalled"}
    /\ chain
    /\ Len(scpi_request.setops) >= 2
    /\ Len(scpi_request.queries) >= 2
    /\ Len(setops) = 1
    /\ Len(queries) = 1

----------------------------------------------------------------------------
(* AttributeClient._unmarshall_response on a field of type arbitrary_block. *)

DATA == <<"D", "A", "T", "A">>

\* one attribute, read from a field of type arbitrary_block
BlockAttributes ==
    << [k |-> "trace", v |-> <<Binding("read", DATA, "arbitrary_block", -1)>>] >>

BlockAlphabet == {"#", "1", "2", "x"}

\* the values of the field: any few bytes
BlockValues == SeqsUpTo(BlockAlphabet, MaxBlockLen)

\* the field has been queried and either the bytes client has delivered the
\* reply to ScpiClient.send_receive, or a SCPI client that leaves the reply
\* undecoded has returned its ScpiResponse
InitBlock ==
    /\ InitFramerIdle
    /\ InitCompareIdle
    /\ attribute_map = BlockAttributes
    /\ chain = TRUE
    /\ return_response = FALSE
    /\ timeout_retries = 0
    /\ attribute_request = [queries |-> <<"trace">>, setops |-> <<>>]
    /\ scpi_request = [queries |-> <<DATA>>, setops |-> <<>>]
    /\ setops = <<>>
    /\ queries = <<PyBytes(DATA \o <<"?">>)>>
    /\ sent = 1
    /\ connection_attempt = 1
    /\ calls = <<>>
    /\ attribute_response = AttributeResponse
    /\ raised = NoException
    /\ attribute_values = <<>>
    /\ \E value \in BlockValues :
          \/ /\ responses = <<PyBytes(value)>>
             /\ scpi_response = ScpiResponse
             /\ pc = "unmarshall"
          \/ /\ responses = <<>>
             /\ scpi_response = ScpiResponse_add_query_response(
                                    ScpiResponse, DATA, PyBytes(value))
             /\ pc = "scpi_response"

NextBlock ==
    \/ Unmarshall
    \/ AttributeUnmarshall

SpecBlock == InitBlock /\ [][NextBlock]_vars

\* the value of the block field that AttributeClient has unmarshalled
BlockValue == TextOf(Get(scpi_response, DATA))

\* the block is rejected: no attribute value, and the error has the message
BlockRejected(message) ==
    /\ pc = "raised"
    /\ raised.err = "ValueError"
    /\ raised.message = message
    /\ attribute_response = AttributeResponse

\* C16: when AttributeClient has unmarshalled the value of an
\* arbitrary_block field, a value that does not start with # has been
\* rejected with an error naming the field; a value with the header # d and
\* d digits giving N has been accepted exactly when N bytes follow the header,
\* and otherwise rejected with an error naming the received and the expected
\* count; a rejected block leaves no attribute value.
C16_BlockLengthChecked ==
    pc \in {"done", "raised"} /\ scpi_response # ScpiResponse =>
        /\ (BlockValue = <<>> \/ BlockValue[1] # "#") => BlockRejected(<<DATA>>)
        /\ StartsWithHeader(BlockValue) =>
              IF Len(BlockValue) - HeaderLength(BlockValue) = DeclaredLength(BlockValue)
              THEN /\ pc = "done"
                   /\ attribute_response =
                         << [k |-> "trace",
                             v |-> [list |-> SubSeq(BlockValue, HeaderLength(BlockValue) + 1,
                                                    Len(BlockValue))]] >>
              ELSE BlockRejected(<<Len(BlockValue) - HeaderLength(BlockValue),
                                   DeclaredLength(BlockValue), DATA>>)

----------------------------------------------------------------------------
(* Claims about ScpiClient._unmarshall_response (SpecUnmarshall). *)

\* the number of double quotes among the first i characters
QuotesUpTo(text, i) == Cardinality({j \in 1..i : text[j] = "\""})

\* the double quotes of the text pair up into quoted substrings, none empty
WellQuoted(text) ==
    /\ QuotesUpTo(text, Len(text)) % 2 = 0
    /\ \A i \in DOMAIN text :
          text[i] = "\"" /\ QuotesUpTo(text, i) % 2 = 1 => text[i + 1] # "\""

RECURSIVE PiecesFrom(_, _, _)
\* the pieces between the ; of the text that lie outside double quotes, from
\* position i on, the piece begun so far being the last argument
PiecesFrom(text, i, piece) ==
    IF i > Len(text) THEN <<piece>>
    ELSE IF text[i] = ";" /\ QuotesUpTo(text, i) % 2 = 0
    THEN <<piece>> \o PiecesFrom(text, i + 1, <<>>)
    ELSE PiecesFrom(text, i + 1, Append(piece, text[i]))

\* the tokens of one received unit: the non-empty pieces of its stripped text
TokensOf(response_bytes) ==
    SelectSeq(PiecesFrom(Strip(response_bytes.bytes), 1, <<>>), LAMBDA piece : piece # <<>>)

RECURSIVE TokensOfAll(_)
\* the tokens of all received units, in order
TokensOfAll(received) ==
    IF received = <<>> THEN <<>>
    ELSE TokensOf(received[1]) \o TokensOfAll(Tail(received))

\* the response maps the fields to the tokens, position by position
ZippedOnto(response, fields, tokens) ==
    response = [i \in DOMAIN fields |-> [k |-> fields[i], v |-> PyStr(tokens[i])]]

MatchesHeaderPattern(first) ==
    /\ Len(first) >= 3
    /\ first[1] = "#"
    /\ IsDigit(first[2])
    /\ IsDigit(first[3])

\* the first chunk of the call does not match the block-header pattern
NaiveUnit == chunks # <<>> /\ ~MatchesHeaderPattern(chunks[1])

\* the bytes of the first n chunks end with the sentinel
EndsAfter(n) == EndsWith(Flatten(SubSeq(chunks, 1, n)), sentinel)

\* C22: when the first chunk does not match the block-header pattern, the
\* call never enters block mode whatever the later chunks hold: it reads on
\* as long as the bytes read so far do not end with the sentinel, and returns
\* at the first chunk after which they do, the unit being those bytes without
\* the trailing sentinel.
C22_NaiveUntilSentinel ==
    NaiveUnit =>
        /\ pc \in {"plain", "returned", "raised"}
        /\ \A n \in 1..(Len(chunks) - 1) : ~EndsAfter(n)
        /\ pc = "returned" =>
              /\ EndsAfter(Len(chunks))
              /\ unit = PyBytes(SubSeq(Flatten(chunks), 1,
                                       Len(Flatten(chunks)) - Len(sentinel)))
        /\ pc = "plain" => ~EndsAfter(Len(chunks))
        /\ pc = "raised" =>
              /\ raised.err = "StopIteration"
              /\ ~EndsAfter(Len(chunks))

\* C22 witness: a unit has been returned in naive mode although a complete
\* block header stands in the chunks after the first
C22_Witness ==
    /\ NaiveUnit
    /\ pc = "returned"
    /\ Len(chunks) >= 2
    /\ \E i \in (Len(chunks[1]) + 1)..Len(Flatten(chunks)) :
          StartsWithHeader(SubSeq(Flatten(chunks), i, Len(Flatten(chunks))))

\* the definition binds the attribute to a bit of the field for writing
WritesBitOf(definition, field) ==
    \E i \in DOMAIN definition.v :
        /\ definition.v[i].method = "write"
        /\ definition.v[i].field = field
        /\ definition.v[i].field_type = "bit"

\* the bit of the field that the definition binds the attribute to
WrittenBit(definition, field) ==
    LET i == CHOOSE i \in DOMAIN definition.v :
                 /\ definition.v[i].method = "write"
                 /\ definition.v[i].field = field
                 /\ definition.v[i].field_type = "bit"
    IN definition.v[i].index

\* the attributes registered on a bit of the field, in registration order
BitGroup(field) ==
    SelectSeq(attribute_map, LAMBDA definition : WritesBitOf(definition, field))

\* the field is written as a group of bits
IsBitField(field) == BitGroup(field) # <<>>

\* the integer written in decimal digits
Decimal(digits) == DigitsToInt(digits)

\* one boolean setop per attribute registered on the field, in registration
\* order: whether the integer has the attribute's bit set
BitGroupSetops(field, v) ==
    [i \in DOMAIN BitGroup(field) |->
        Setop(BitGroup(field)[i].k,
              <<PyBool((v \div (2 ^ WrittenBit(BitGroup(field)[i], field))) % 2 = 1)>>)]

RECURSIVE ExpandedBitSetops(_)
\* the boolean setops that the bit-group setops of a list expand into
ExpandedBitSetops(pending) ==
    IF pending = <<>> THEN <<>>
    ELSE BitGroupSetops(pending[1].field, Decimal(pending[1].args[1]))
            \o ExpandedBitSetops(Tail(pending))

\* the attribute is registered on a bit of some field
IsBitAttribute(attribute) ==
    \E i \in DOMAIN attribute_map :
        /\ attribute_map[i].k = attribute
        /\ \E j \in DOMAIN attribute_map[i].v : attribute_map[i].v[j].field_type = "bit"

\* ScpiServer._unmarshall_request has returned an attribute request
ServerUnmarshalledRequest ==
    pc \in {"attribute_request", "attribute_response", "scpi_response", "returned"}

\* the setops of the SCPI request on bit-group fields
BitFieldSetops ==
    SelectSeq(scpi_request.setops, LAMBDA setop : IsBitField(setop.field))

\* C23: a setop on a field written as a bit group, with the integer v, is
\* expanded into exactly one boolean setop per attribute registered on the
\* field, in registration order, the attribute of bit b receiving whether v
\* has bit b set; the attribute request holds no other setop of a bit
\* attribute, and none at all when the request holds only such setops.
C23_BitSetopExpanded ==
    /\ ServerUnmarshalledRequest
    /\ \A i \in DOMAIN BitFieldSetops :
          /\ BitFieldSetops[i].args # <<>>
          /\ AllDigits(BitFieldSetops[i].args[1])
    => /\ SelectSeq(attribute_request.setops,
                    LAMBDA setop : IsBitAttribute(setop.attribute))
            = ExpandedBitSetops(BitFieldSetops)
       /\ BitFieldSetops = scpi_request.setops
            => attribute_request.setops = ExpandedBitSetops(BitFieldSetops)

\* C23 witness: FLAGS 129 has been expanded into three boolean setops, bits
\* 0 and 7 set and bit 1 clear
C23_Witness ==
    /\ pc = "attribute_request"
    /\ scpi_request.setops = <<[field |-> FLAGS, args |-> <<<<"1", "2", "9">>>>]>>
    /\ attribute_request.setops
          = << Setop("overripe", <<PyBool(TRUE)>>),
               Setop("under-ripe", <<PyBool(FALSE)>>),
               Setop("chilled", <<PyBool(TRUE)>>) >>

----------------------------------------------------------------------------
(* ScpiRequest.add_setop called on a request under construction            *)
(* (SpecAddSetop).  other holds the request as it was before the last      *)
(* call, calls the arguments of every call.                                *)

\* the argument lists of a setop: none, one or two arguments
AddSetopArgs == {<<>>, <<<<"1">>>>, <<<<"1">>, <<"2">>>>}

InitAddSetop ==
    /\ InitFramerIdle
    /\ attribute_map = FruitAttributes
    /\ chain = TRUE
    /\ return_response = FALSE
    /\ timeout_retries = 0
    /\ attribute_request = AttributeRequest
    /\ scpi_request \in {ScpiRequest, ScpiRequest_add_query(ScpiRequest, NAME)}
    /\ setops = <<>>
    /\ queries = <<>>
    /\ sent = 0
    /\ connection_attempt = 0
    /\ responses = <<>>
    /\ calls = <<>>
    /\ scpi_response = ScpiResponse
    /\ attribute_response = AttributeResponse
    /\ raised = NoException
    /\ attribute_values = <<>>
    /\ other = scpi_request
    /\ comparison = FALSE
    /\ pc = "request"

\* scpi_request.add_setop(field, *args, replace=replace)
AddSetop ==
    /\ pc = "request"
    /\ Len(calls) < MaxAddSetops
    /\ \E field \in {JUIC, FLAGS}, args \in AddSetopArgs, replace \in BOOLEAN :
          /\ calls' = Append(calls, [field |-> field, args |-> args, replace |-> replace])
          /\ other' = scpi_request
          /\ scpi_request' = ScpiRequest_add_setop(scpi_request, field, args, replace)
    /\ UNCHANGED <<attribute_map, chain, return_response, timeout_retries,
                   attribute_request, setops, queries, sent, connection_attempt,
                   responses, scpi_response, attribute_response, raised,
                   attribute_values, pc, framer_vars, comparison>>

NextAddSetop == AddSetop

SpecAddSetop == InitAddSetop /\ [][NextAddSetop]_vars

\* the arguments of the last add_setop call
LastAddSetop == calls[Len(calls)]

\* the positions of the setops of the field in the request before the call
PositionsOf(field) == {i \in DOMAIN other.setops : other.setops[i].field = field}

\* the first position of a setop of the field in the request before the call
FirstPositionOf(field) ==
    CHOOSE i \in PositionsOf(field) : \A j \in PositionsOf(field) : i <= j

\* the last call was one with replace=True on a field that had a setop
Replaced == LastAddSetop.replace /\ PositionsOf(LastAddSetop.field) # {}

\* C24: add_setop with replace=True on a field that already has a setop
\* overwrites the argument list of the first setop of that field in place,
\* the number and the positions of the setops staying as they were; in every
\* other case the setop is appended; the other setops and the queries are
\* left as they were.
C24_AddSetopReplacesFirst ==
    calls # <<>> =>
        /\ scpi_request.queries = other.queries
        /\ IF Replaced
           THEN /\ Len(scpi_request.setops) = Len(other.setops)
                /\ \A i \in DOMAIN other.setops :
                      scpi_request.setops[i]
                        = IF i = FirstPositionOf(LastAddSetop.field)
                          THEN [field |-> LastAddSetop.field, args |-> LastAddSetop.args]
                          ELSE other.setops[i]
           ELSE scpi_request.setops
                  = other.setops
                      \o <<[field |-> LastAddSetop.field, args |-> LastAddSetop.args]>>

\* C24 witness: of two setops of one field, separated from a third setop's
\* position, the first has been overwritten and the second kept
C24_Witness ==
    /\ Len(calls) = 3
    /\ Replaced
    /\ Cardinality(PositionsOf(LastAddSetop.field)) = 2
    /\ scpi_request.setops[1].args = LastAddSetop.args
    /\ scpi_request.setops[1] # other.setops[1]
    /\ scpi_request.setops[2] = other.setops[2]

----------------------------------------------------------------------------
(* AttributeClient._unmarshall_response on a field that carries a read     *)
(* binding and a write binding (SpecBinding).                              *)

LEV == <<"L", "E", "V">>

\* definitions in which the field LEV is read as a float into the attribute
\* level, and written as an int: by the same attribute or by another one,
\* registered after the read binding or before it
BindingDefinitions ==
    { << [k |-> "level", v |-> <<Binding("read", LEV, "float", -1),
                                 Binding("write", LEV, "int", -1)>>] >>,
      << [k |-> "level", v |-> <<Binding("write", LEV, "int", -1),
                                 Binding("read", LEV, "float", -1)>>] >>,
      << [k |-> "level", v |-> <<Binding("read", LEV, "float", -1)>>],
         [k |-> "level_set", v |-> <<Binding("write", LEV, "int", -1)>>] >>,
      << [k |-> "level_set", v |-> <<Binding("write", LEV, "int", -1)>>],
         [k |-> "level", v |-> <<Binding("read", LEV, "float", -1)>>] >> }

LevelAlphabet == {"1", "5", "."}

\* the values of the field: any few bytes
LevelValues == SeqsUpTo(LevelAlphabet, MaxLevelLen)

\* the field has been queried and either the bytes client has delivered the
\* reply to ScpiClient.send_receive, or a SCPI client that leaves the reply
\* undecoded has returned its ScpiResponse
InitBinding ==
    /\ InitFramerIdle
    /\ InitCompareIdle
    /\ attribute_map \in BindingDefinitions
    /\ chain = TRUE
    /\ return_response = FALSE
    /\ timeout_retries = 0
    /\ attribute_request = [queries |-> <<"level">>, setops |-> <<>>]
    /\ scpi_request = [queries |-> <<LEV>>, setops |-> <<>>]
    /\ setops = <<>>
    /\ queries = <<PyBytes(LEV \o <<"?">>)>>
    /\ sent = 1
    /\ connection_attempt = 1
    /\ calls = <<>>
    /\ attribute_response = AttributeResponse
    /\ raised = NoException
    /\ attribute_values = <<>>
    /\ \E value \in LevelValues :
          \/ /\ responses = <<PyBytes(value)>>
             /\ scpi_response = ScpiResponse
             /\ pc = "unmarshall"
          \/ /\ responses = <<>>
             /\ scpi_response = ScpiResponse_add_query_response(
                                    ScpiResponse, LEV, PyBytes(value))
             /\ pc = "scpi_response"

NextBinding ==
    \/ Unmarshall
    \/ AttributeUnmarshall

SpecBinding == InitBinding /\ [][NextBinding]_vars

\* AttributeClient._unmarshall_response has handled a response with the
\* field LEV
LevelUnmarshalled ==
    /\ pc \in {"done", "raised"}
    /\ Has(scpi_response, LEV)

\* the value of the field, read as the float of the read binding
LevelAsFloat == StrToFloat(TextOf(Get(scpi_response, LEV)))

\* C25: the value of a field of a ScpiResponse is decoded with the read
\* binding of the field (here: as a float, into the attribute level), also
\* when the field carries a write binding of another type, of the same or of
\* another attribute, registered after or before the read binding.
C25_DecodedWithReadBinding ==
    LevelUnmarshalled =>
        IF LevelAsFloat.ok
        THEN /\ pc = "done"
             /\ attribute_response = << [k |-> "level", v |-> PyFloat(LevelAsFloat.val)] >>
        ELSE pc = "raised"

----------------------------------------------------------------------------
(* Claims about the transport calls of ScpiClient.send_receive (Spec). *)

\* the calls that the setop loop and the query loop have made, in order
SetopCalls == SelectSeq(calls, LAMBDA call : call.loop = "setops")

QueryCalls == SelectSeq(calls, LAMBDA call : call.loop = "queries")

\* the setop loop has ended without an error
SetopLoopOver ==
    /\ pc \notin {"start", "marshalled", "setops"}
    /\ \A i \in DOMAIN SetopCalls : SetopCalls[i].outcome = "returned"

\* C26: in one send_receive call the i-th transport call of the setop loop
\* hands over the i-th setop unit, so that no setop unit is sent twice, and
\* once the setop loop is over every setop unit has been sent exactly once,
\* however many query attempts time out; a query call that is a retry
\* follows a timed-out call of the same query unit and hands over the same
\* bytes.
C26_SetopsOnceRetriesSame ==
    /\ Len(SetopCalls) <= Len(setops)
    /\ \A i \in DOMAIN SetopCalls :
          /\ SetopCalls[i].index = i
          /\ SetopCalls[i].request_bytes = setops[i]
    /\ SetopLoopOver => Len(SetopCalls) = Len(setops)
    /\ \A i \in DOMAIN calls :
          calls[i].loop = "queries" => i > Len(SetopCalls)
    /\ \A i \in DOMAIN QueryCalls :
          /\ QueryCalls[i].request_bytes = queries[QueryCalls[i].index]
          /\ QueryCalls[i].attempt > 1 =>
                /\ i > 1
                /\ QueryCalls[i - 1].outcome = "socket.timeout"
                /\ QueryCalls[i - 1].index = QueryCalls[i].index
                /\ QueryCalls[i - 1].attempt = QueryCalls[i].attempt - 1
                /\ QueryCalls[i - 1].request_bytes = QueryCalls[i].request_bytes

\* C26 witness: a call with several setop units has ended after a query
\* unit timed out twice and was sent a third time
C26_Witness ==
    /\ pc = "done"
    /\ Len(setops) >= 2
    /\ Len(SetopCalls) = Len(setops)
    /\ \E i \in DOMAIN QueryCalls : QueryCalls[i].attempt = 3

----------------------------------------------------------------------------
(* The byte framer on one stream split in different ways (SpecFramer). *)

\* the outcome of unmarshall when the whole stream arrives as one chunk
OneChunk(stream) ==
    IF Framer_is_block(stream)
    THEN IF ~Framer_len_data(stream).ok THEN [pc |-> "raised", unit |-> None]
         ELSE IF Framer_block_incomplete(stream, Framer_len_head(stream),
                                         Framer_len_data(stream).val)
         THEN [pc |-> "block", unit |-> None]
         ELSE IF Framer_overrun(stream, Framer_len_head(stream),
                                Framer_len_data(stream).val)
         THEN [pc |-> "raised", unit |-> None]
         ELSE [pc |-> "returned", unit |-> PyBytes(RemoveSuffix(stream, sentinel))]
    ELSE IF ~EndsWith(stream, sentinel) THEN [pc |-> "plain", unit |-> None]
         ELSE [pc |-> "returned", unit |-> PyBytes(RemoveSuffix(stream, sentinel))]

\* the sentinel occurs in the text
HoldsSentinel(text) ==
    \E i \in 1..(Len(text) - Len(sentinel) + 1) :
        SubSeq(text, i, i + Len(sentinel) - 1) = sentinel

\* the stream is one unit followed by the sentinel: arriving as one chunk, it
\* is returned whole, without the sentinel; only a block may hold the
\* sentinel in its data
IsUnitStream(stream) ==
    /\ stream # <<>>
    /\ OneChunk(stream).pc = "returned"
    /\ OneChunk(stream).unit.bytes \o sentinel = stream
    /\ ~Framer_is_block(stream) => ~HoldsSentinel(OneChunk(stream).unit.bytes)

\* the streams that begin with the chunks read so far
StreamsFromHere ==
    {Flatten(chunks) \o rest :
        rest \in SeqsUpTo(ChunkAlphabet, MaxBufferLen - Len(Flatten(chunks)))}

\* C27: for a stream of one unit followed by the sentinel, unmarshall has
\* the same outcome however the stream is split into chunks: it returns
\* only when the whole stream has been read, it returns then, and the unit
\* is the one returned when the stream arrives as one chunk.
C27_ChunkingIndependent ==
    \A stream \in StreamsFromHere :
        IsUnitStream(stream) /\ chunks # <<>> =>
            /\ pc = "returned" =>
                  /\ Flatten(chunks) = stream
                  /\ unit = OneChunk(stream).unit
            /\ pc = "raised" => raised.err = "StopIteration"
            /\ Flatten(chunks) = stream => pc \in {"returned", "raised"}

----------------------------------------------------------------------------
(* The units of ScpiClient._marshall_request parsed by                     *)
(* ScpiBytesServer._unmarshall_request with the same separator (SpecWire). *)
(* calls holds the ScpiRequest that the server made of each unit so far,   *)
(* the setop units first.                                                  *)

\* the setops of a request: without argument, with one and with two
WireSetops ==
    { [field |-> JUIC, args |-> <<>>],
      [field |-> JUIC, args |-> <<<<"1">>>>],
      [field |-> FLAGS, args |-> <<<<"2">>>>],
      [field |-> RST, args |-> <<<<"1">>, <<"2">>>>] }

\* the requests that are sent: a few setops and a few queries
WireRequests ==
    {[queries |-> q, setops |-> s] :
        q \in {q \in SeqsUpTo({NAME, JUIC}, MaxWireCommands) : Dedup(q) = q},
        s \in SeqsUpTo(WireSetops, MaxWireCommands)}

InitWire ==
    /\ InitFramerIdle
    /\ InitCompareIdle
    /\ attribute_map = FruitAttributes
    /\ chain \in BOOLEAN
    /\ return_response = FALSE
    /\ timeout_retries = 0
    /\ attribute_request = AttributeRequest
    /\ scpi_request \in WireRequests
    /\ setops = <<>>
    /\ queries = <<>>
    /\ sent = 0
    /\ connection_attempt = 0
    /\ responses = <<>>
    /\ calls = <<>>
    /\ scpi_response = ScpiResponse
    /\ attribute_response = AttributeResponse
    /\ raised = NoException
    /\ attribute_values = <<>>
    /\ pc = "wire_request"

wire_rest == <<attribute_map, chain, return_response, timeout_retries,
               attribute_request, scpi_request, connection_attempt, responses,
               scpi_response, attribute_response, raised, attribute_values,
               framer_vars, compare_vars>>

\* (setops, queries) = self._marshall_request(scpi_request)
WireMarshall ==
    /\ pc = "wire_request"
    /\ LET units == ScpiClient_marshall_request(scpi_request, chain, argument_separator)
       IN /\ setops' = units.setops
          /\ queries' = units.queries
          /\ pc' = IF units.setops \o units.queries = <<>> THEN "wire_done" ELSE "wire_units"
    /\ UNCHANGED <<sent, calls, wire_rest>>

\* the server's _unmarshall_request of the next unit
WireUnmarshall ==
    /\ pc = "wire_units"
    /\ calls' = Append(calls, ScpiBytesServer_unmarshall_request(
                                  (setops \o queries)[sent + 1], argument_separator))
    /\ sent' = sent + 1
    /\ pc' = IF sent + 1 < Len(setops \o queries) THEN pc ELSE "wire_done"
    /\ UNCHANGED <<setops, queries, wire_rest>>

NextWire ==
    \/ WireMarshall
    \/ WireUnmarshall

SpecWire == InitWire /\ [][NextWire]_vars

RECURSIVE SetopsOfAll(_)
\* the setops of a list of requests, in order
SetopsOfAll(requests) ==
    IF requests = <<>> THEN <<>>
    ELSE requests[1].setops \o SetopsOfAll(Tail(requests))

RECURSIVE QueriesOfAll(_)
\* the queries of a list of requests, in order
QueriesOfAll(requests) ==
    IF requests = <<>> THEN <<>>
    ELSE requests[1].queries \o QueriesOfAll(Tail(requests))

\* C28: when the server has parsed every unit that the client marshalled of
\* a request, chained or not, the setops parsed are the setops of the
\* request, with the same fields and the same argument lists in the same
\* order, whether a setop has no, one or several arguments, and the queries
\* parsed are the queries of the request in the same order.
C28_WireRoundTrip ==
    pc = "wire_done" =>
        /\ SetopsOfAll(calls) = scpi_request.setops
        /\ QueriesOfAll(calls) = scpi_request.queries

----------------------------------------------------------------------------
(* Replies and fields of an unchained ScpiClient.send_receive (Spec). *)

\* the reply that the bytes client returned for the i-th query unit
ReplyTo(i) ==
    LET call == CHOOSE call \in Range(QueryCalls) :
                    call.index = i /\ call.outcome = "returned"
    IN call.reply

\* send_receive has returned a response to a request sent without chaining,
\* one query unit per field
UnchainedResponse ==
    /\ ~chain
    /\ scpi_response # ScpiResponse
    /\ Len(queries) = Len(scpi_request.queries)

\* C29: when send_receive, without chaining, has returned a response, the
\* value of each queried field is the content of the reply that the bytes
\* client returned for the query unit of that field; an empty reply or a
\* reply with a ; does not move a value to another field.
C29_ValueFromOwnReply ==
    UnchainedResponse =>
        \A i \in DOMAIN scpi_request.queries :
            Get(scpi_response, scpi_request.queries[i]) = PyStr(Strip(ReplyTo(i).bytes))

\* the values that the simulator is constructed with
ValuesAtConstruction == ScpiSimulator_init(<<>>, MockAttributeResponse)

\* ScpiSimulator.receive_send has ended with the ValueError for a setop with
\* neither arguments nor a defined method, which ScpiServer turns into None
SimulatorRejected == pc = "scpi_response" /\ IsA(scpi_response, "none")

\* C30: when ScpiSimulator.receive_send has ended with the ValueError for a
\* setop with neither arguments nor a defined method, the stored attribute
\* values are those from before the call: no earlier setop of the request
\* has been applied.
C30_RejectedRequestChangesNothing ==
    SimulatorRejected => attribute_values = ValuesAtConstruction

====
